---------------------------- MODULE Spec2Model ----------------------------
(***************************************************************************)
(* A model of bwctl's state-reconciliation engine: the create-batch action *)
(* planner (commands/create.py, set_action_list), the persisted state tree *)
(* (session/state.py) and the commands that move objects through it.       *)
(*                                                                         *)
(* Python dicts are TLA+ functions whose DOMAIN is the set of keys that    *)
(* are present.  The empty placeholder {} that get_clean_* puts in         *)
(* 'state', 'status', 'role', 'type' and 'index' is the value Clean.       *)
(***************************************************************************)
EXTENDS Integers, Sequences, FiniteSets, TLC

VARIABLES
  pl,              \* the planner's inputs and result (SpecPlan)
  probe,           \* the inputs and result of one session operation taken
                   \* on its own (SpecCreds, SpecSetState, SpecRoundTrip)
  pidfile,         \* the process that holds the lock ~/.bwctl/bwctl (SpecLock)
  proc,            \* every bwctl process: where it is in bwctl.py, what it
                   \* has done to the state file and its exit code
  state,           \* the persisted state tree: what State.dump last wrote
  current_fabric,  \* config attribute 'current_fabric'
  last             \* the last command: its name, argument, flags, the
                   \* external calls it made and its exit code

vars == <<pl, probe, pidfile, proc, state, current_fabric, last>>

-----------------------------------------------------------------------------
(* utils/states.py *)

Clean == "clean"

CREATED == "created"
CONFIGURED == "configured"
STARTED == "started"
STOPPED == "stopped"
UPDATED == "updated"
DELETING == "deleting"

ObjectState == {DELETING, CONFIGURED, STARTED, STOPPED, CREATED, UPDATED}

SUCCESS == "success"
FAILED == "failed"

ObjectStatus == {FAILED, SUCCESS}

FABRIC == "fabric"
VPC == "vpc"
NODEBATCH == "nodebatch"
ORCHESTRATOR == "orchestrator"
PROCESSOR == "processor"
WORKLOAD == "workload"

NodeKinds == {ORCHESTRATOR, PROCESSOR, WORKLOAD}

-----------------------------------------------------------------------------
(* Dicts and names. *)

EmptyDict == << >>

Put(d, k, v) == [x \in DOMAIN d \cup {k} |-> IF x = k THEN v ELSE d[x]]

Del(d, k) == [x \in DOMAIN d \ {k} |-> d[x]]

Max(S) == CHOOSE x \in S : \A y \in S : y <= x

(* A VPC name cloud + str(index) + '-vpc-' + fabric is <<cloud, index,     *)
(* fabric>>; vpc.split("-")[0] is its first two components.                *)
vpc_name(vpc_cloud, vpc_index, fabric) == <<vpc_cloud, vpc_index, fabric>>

vpc_token(vpc) == <<vpc[1], vpc[2]>>

NoVpc == << >>

NoFabric == "none"

CleanIndex == 0

-----------------------------------------------------------------------------
(* session/state.py: the State object.  Operators that change the state    *)
(* take it as `s` and return the new one.                                  *)

check_fabric(s, name) == name \in DOMAIN s.fabric

get_fabric(s, name) == s.fabric[name]

check_state_attr_value(s, fabric, attr, value) ==
  value \in DOMAIN s.fabric[fabric][attr]

check_vpc(s, fabric, name) == check_state_attr_value(s, fabric, VPC, name)

check_nodeobj(s, fabric, name, objectkind) ==
  check_state_attr_value(s, fabric, objectkind, name)

get_fabric_objects(s, obj_kind, fabric_name) == s.fabric[fabric_name][obj_kind]

get_fabric_object(s, obj_kind, obj_name, fabric_name) ==
  s.fabric[fabric_name][obj_kind][obj_name]

get_object_state(obj) == obj.state

get_object_status(obj) == obj.status

check_object_state(obj, st) == get_object_state(obj) = st

check_object_status(obj, status) == get_object_status(obj) = status

check_object_state_status(obj, st, status) ==
  get_object_state(obj) = st /\ get_object_status(obj) = status

(* State.set_object_state / set_object_status: the value is stored when   *)
(* the enumeration has it; the object is left alone otherwise.             *)
set_object_state(obj, st) ==
  IF st \in ObjectState THEN [obj EXCEPT !.state = st] ELSE obj

set_object_status(obj, status) ==
  IF status \in ObjectStatus THEN [obj EXCEPT !.status = status] ELSE obj

(* State.set_object_state_status: the one, then the other. *)
set_object_state_status(obj, st, status) ==
  set_object_status(set_object_state(obj, st), status)

add_fabric(s, fabric_name, fabric) ==
  [s EXCEPT !.fabric = Put(@, fabric_name, fabric)]

add_fabric_obj(s, fabric_name, obj_type, obj_name, obj) ==
  [s EXCEPT !.fabric[fabric_name][obj_type] = Put(@, obj_name, obj)]

delete_fabric(s, name) == [s EXCEPT !.fabric = Del(@, name)]

delete_fabric_object(s, obj_kind, obj_name, fabric_name) ==
  [s EXCEPT !.fabric[fabric_name][obj_kind] = Del(@, obj_name)]

SetObj(s, fabric_name, obj_kind, obj_name, st, status) ==
  [s EXCEPT !.fabric[fabric_name][obj_kind][obj_name] =
              set_object_state_status(@, st, status)]

RECURSIVE SetObjs(_, _, _, _, _)
SetObjs(s, fabric_name, objs, st, status) ==
  IF objs = {} THEN s
  ELSE LET o == CHOOSE x \in objs : TRUE
       IN SetObjs(SetObj(s, fabric_name, o[1], o[2], st, status),
                  fabric_name, objs \ {o}, st, status)

SetFabric(s, fabric_name, st, status) ==
  [s EXCEPT !.fabric[fabric_name] = set_object_state_status(@, st, status)]

get_clean_fabric ==
  [config |-> Clean, orchestrator |-> EmptyDict, processor |-> EmptyDict,
   state |-> Clean, status |-> Clean, vpc |-> EmptyDict, workload |-> EmptyDict]

get_clean_vpc ==
  [cloud |-> Clean, index |-> CleanIndex, state |-> Clean, status |-> Clean]

get_clean_orchestrator ==
  [index |-> CleanIndex, role |-> Clean, state |-> Clean, status |-> Clean,
   type |-> Clean, vpc |-> NoVpc]

get_clean_processor ==
  [index |-> CleanIndex, config |-> Clean, state |-> Clean, status |-> Clean,
   vpc |-> NoVpc]

get_clean_workload ==
  [index |-> CleanIndex, config |-> Clean, state |-> Clean, status |-> Clean,
   vpc |-> NoVpc]

get_clean_nodeobj(objectkind) ==
  CASE objectkind = PROCESSOR -> get_clean_processor
    [] objectkind = WORKLOAD -> get_clean_workload
    [] objectkind = ORCHESTRATOR -> get_clean_orchestrator

(* State.get_current_fabric: the configured fabric name, if that fabric    *)
(* exists and is (configured, success) or deleting; None otherwise.        *)
get_current_fabric(s, cur) ==
  IF check_fabric(s, cur)
       /\ \/ check_object_state_status(s.fabric[cur], CONFIGURED, SUCCESS)
          \/ check_object_state(s.fabric[cur], DELETING)
    THEN cur ELSE NoFabric

(* One call of the Provisioner (terraform) or the Configurator (ansible):  *)
(* the tool, the plan or playbook, the fabric, the objects it is made for  *)
(* as <<kind, name>> pairs, and whether it succeeded.                      *)
Call(tool, what, fabric, objs, ok) ==
  [tool |-> tool, what |-> what, fabric |-> fabric, objs |-> objs, ok |-> ok]

Res(s, ok, calls) == [st |-> s, ok |-> ok, calls |-> calls]

(* Op applied to the value of v, with v computed once. *)
With(v, Op(_)) == CHOOSE r \in {Op(x) : x \in {v}} : TRUE

FabricObj(fabric_name) == {<<FABRIC, fabric_name>>}

(* State.fabric_create: playbook create-fabric.yml. *)
fabric_create(s, fabric_name, ok) ==
  LET c == {Call("ansible", "create-fabric.yml", fabric_name,
                 FabricObj(fabric_name), ok)}
  IN IF ok THEN Res(SetFabric(s, fabric_name, CREATED, SUCCESS), TRUE, c)
     ELSE Res(SetFabric(s, fabric_name, CREATED, FAILED), FALSE, c)

(* State.fabric_configure: the CA and the SSH key playbooks, as one call. *)
fabric_configure(s, fabric_name, ok) ==
  LET c == {Call("ansible", "configure-fabric.yml", fabric_name,
                 FabricObj(fabric_name), ok)}
  IN IF ok THEN Res(SetFabric(s, fabric_name, CONFIGURED, SUCCESS), TRUE, c)
     ELSE Res(SetFabric(s, fabric_name, CONFIGURED, FAILED), FALSE, c)

(* The outcomes of State.vpc_create: the credentials are missing, the    *)
(* terraform run fails, or all succeeds.                                   *)
VpcCreateOutcomes ==
  {[creds |-> FALSE, ok |-> FALSE], [creds |-> TRUE, ok |-> FALSE],
   [creds |-> TRUE, ok |-> TRUE]}

VpcObjs(vpc_list) == {<<VPC, v>> : v \in vpc_list}

(* State.vpc_create: credentials, then terraform plan and apply. *)
vpc_create(s, fabric_name, vpc_list, creds, ok) ==
  LET c == {Call("terraform", "vpc", fabric_name, VpcObjs(vpc_list), ok)}
  IN IF ~creds THEN Res(s, FALSE, {})
     ELSE IF ok
       THEN Res(SetObjs(s, fabric_name, VpcObjs(vpc_list), CREATED, SUCCESS), TRUE, c)
       ELSE Res(SetObjs(s, fabric_name, VpcObjs(vpc_list), CREATED, FAILED), FALSE, c)

(* '{:02d}'.format(index): the digits of a node name. *)
Fmt02d(index) ==
  IF index < 10 THEN <<0, index>> ELSE <<index \div 10, index % 10>>

(* '{0}-{1}{2:02d}-{3}'.format(vpc.split("-")[0], char, index, fabric) *)
node_name(vpc, obj_char, obj_index, fabric) ==
  <<vpc_token(vpc), obj_char, Fmt02d(obj_index), fabric>>

(* The order of two digit strings as Python orders the names holding them. *)
RECURSIVE DigitsLess(_, _)
DigitsLess(a, b) ==
  IF a = << >> THEN b # << >>
  ELSE IF b = << >> THEN FALSE
  ELSE IF Head(a) # Head(b) THEN Head(a) < Head(b)
  ELSE DigitsLess(Tail(a), Tail(b))

(* The last key of a dict of node names of one VPC and kind, in the order *)
(* of the dumped file (yaml.dump sorts the keys).                         *)
LastName(names) ==
  CHOOSE n \in names : \A m \in names \ {n} : DigitsLess(m[3], n[3])

VpcNodes(s, fabric, obj_kind, vpc) ==
  {n \in DOMAIN s.fabric[fabric][obj_kind] : s.fabric[fabric][obj_kind][n].vpc = vpc}

NamesOf(objs, obj_kind) == {o[2] : o \in {x \in objs : x[1] = obj_kind}}

(* State.obj_create_check: every workload to create has a processor in   *)
(* its VPC.                                                               *)
obj_create_check(s, fabric_name, objs) ==
  \A w \in NamesOf(objs, WORKLOAD) :
    VpcNodes(s, fabric_name, PROCESSOR, s.fabric[fabric_name].workload[w].vpc) # {}

(* The outcomes of State.obj_create's external calls: all succeed; a      *)
(* terraform plan fails; the nodes of some kinds come up without an IP    *)
(* address or FQDN or are unreachable; the playbook create-node.yml fails. *)
ObjCreateOutcomes(objs) ==
  {[fail |-> "none", kinds |-> {}], [fail |-> "terraform", kinds |-> {}],
   [fail |-> "playbook", kinds |-> {}]}
  \cup {[fail |-> "node", kinds |-> K] : K \in (SUBSET {o[1] : o \in objs}) \ {{}}}

ObjCreateOk == [fail |-> "none", kinds |-> {}]

(* State.obj_create *)
obj_create(s, fabric_name, objs, oc) ==
  LET bad == {o \in objs : o[1] \in oc.kinds}
      tf(ok) == Call("terraform", "node", fabric_name, objs, ok)
      online(ok) == Call("ansible", "check-node-online.yml", fabric_name, bad, ok)
      node(ok) == Call("ansible", "create-node.yml", fabric_name, objs, ok)
  IN IF oc.fail = "terraform"
       THEN Res(SetObjs(s, fabric_name, objs, CREATED, FAILED), FALSE, {tf(FALSE)})
     ELSE IF oc.fail = "node" /\ bad # {}
       THEN Res(SetObjs(s, fabric_name, bad, CREATED, FAILED), FALSE,
                {tf(TRUE), online(FALSE)})
     ELSE IF oc.fail = "playbook"
       THEN Res(SetObjs(s, fabric_name, objs, CREATED, FAILED), FALSE,
                {tf(TRUE), node(FALSE)})
     ELSE Res(SetObjs(s, fabric_name, objs, CREATED, SUCCESS), TRUE,
              {tf(TRUE), node(TRUE)})

Managers(s, fabric_name) ==
  {n \in DOMAIN s.fabric[fabric_name].orchestrator :
     s.fabric[fabric_name].orchestrator[n].role = "manager"}

(* A fabric in which no orchestrator is taken for a worker. *)
Workers_none(s, fabric_name) == {}

Workers(s, fabric_name) ==
  {n \in DOMAIN s.fabric[fabric_name].orchestrator :
     s.fabric[fabric_name].orchestrator[n].role = "worker"}

(* manager[0][0]: the first manager in the dict's order. *)
FirstName(names) ==
  CHOOSE n \in names : \A m \in names \ {n} : DigitsLess(n[3], m[3])

OrchObjs(names) == {<<ORCHESTRATOR, n>> : n \in names}

(* The role loop of State.orchestrator_configure when the fabric has no   *)
(* manager: every controller of the list becomes manager, every other     *)
(* orchestrator of the list worker.                                       *)
AssignRoles(s, fabric_name, orchestrator_list) ==
  LET orchs == s.fabric[fabric_name].orchestrator
  IN [s EXCEPT !.fabric[fabric_name].orchestrator =
       [n \in DOMAIN orchs |->
          IF n \in orchestrator_list
            THEN [orchs[n] EXCEPT !.role = IF orchs[n].type = "controller"
                                             THEN "manager" ELSE "worker"]
            ELSE orchs[n]]]

OrchConfigureOutcomes == {"ok", "swarm", "playbook"}

(* State.orchestrator_configure (orch_state is always CONFIGURED). *)
orchestrator_configure(s, fabric_name, orchestrator_list, oc) ==
  LET orchs == s.fabric[fabric_name].orchestrator
      s1 == IF Managers(s, fabric_name) = {}
              THEN AssignRoles(s, fabric_name, orchestrator_list) ELSE s
      manager == FirstName(Managers(s1, fabric_name))
      swarm(ok) == Call("ansible", "install-swarm-manager.yml", fabric_name,
                        OrchObjs({manager}), ok)
      play(ok) == Call("ansible", "configure-orchestrator.yml", fabric_name,
                       OrchObjs(orchestrator_list), ok)
  IN IF \E n \in orchestrator_list :
          check_object_state_status(orchs[n], CREATED, FAILED)
       THEN Res(s, FALSE, {})
     ELSE IF Managers(s1, fabric_name) = {}
       THEN Res(s1, FALSE, {})
     ELSE IF oc = "swarm"
       THEN Res(s1, FALSE, {swarm(FALSE)})
     ELSE IF oc = "playbook"
       THEN Res(SetObjs(s1, fabric_name, OrchObjs(orchestrator_list),
                        CONFIGURED, FAILED), FALSE, {swarm(TRUE), play(FALSE)})
     ELSE Res(SetObjs(s1, fabric_name, OrchObjs(orchestrator_list),
                      CONFIGURED, SUCCESS), TRUE, {swarm(TRUE), play(TRUE)})

(* State.obj_update for orchestrators: playbook update-orchestrator.yml. *)
obj_update(s, fabric_name, obj_type, obj_list, ok) ==
  LET objs == {<<obj_type, n>> : n \in obj_list}
      c == {Call("ansible", "update-" \o obj_type \o ".yml", fabric_name, objs, ok)}
  IN IF obj_type = ORCHESTRATOR /\ Managers(s, fabric_name) = {}
       THEN Res(s, FALSE, {})
     ELSE IF ~ok
       THEN Res(SetObjs(s, fabric_name, objs, UPDATED, FAILED), FALSE, c)
     ELSE Res(SetObjs(s, fabric_name, objs, UPDATED, SUCCESS), TRUE, c)

(* The run of one playbook over a list of processors or workloads, as     *)
(* State.processor_configure, processor_start and processor_stop make it. *)
node_playbook(s, fabric_name, obj_kind, obj_list, st, what, ok) ==
  LET objs == {<<obj_kind, n>> : n \in obj_list}
      c == {Call("ansible", what \o "-" \o obj_kind \o ".yml", fabric_name, objs, ok)}
  IN IF ok THEN Res(SetObjs(s, fabric_name, objs, st, SUCCESS), TRUE, c)
     ELSE Res(SetObjs(s, fabric_name, objs, st, FAILED), FALSE, c)

(* Every workload of the list has a processor in its VPC to be its proxy. *)
HasProxy(s, fabric_name, workload_list) ==
  \A w \in workload_list :
    VpcNodes(s, fabric_name, PROCESSOR, s.fabric[fabric_name].workload[w].vpc) # {}

processor_configure(s, fabric_name, processor_list, ok) ==
  node_playbook(s, fabric_name, PROCESSOR, processor_list, CONFIGURED, "configure", ok)

(* processor_start marking every processor of the fabric when it fails. *)
processor_start_marking_all(s, fabric_name, processor_list, ok) ==
  LET r == node_playbook(s, fabric_name, PROCESSOR, processor_list, STARTED, "start", ok)
  IN IF ok THEN r
     ELSE Res(SetObjs(r.st, fabric_name,
                      {<<PROCESSOR, n>> : n \in DOMAIN s.fabric[fabric_name].processor},
                      STARTED, FAILED), FALSE, r.calls)

processor_start(s, fabric_name, processor_list, ok) ==
  node_playbook(s, fabric_name, PROCESSOR, processor_list, STARTED, "start", ok)

processor_stop(s, fabric_name, processor_list, ok) ==
  node_playbook(s, fabric_name, PROCESSOR, processor_list, STOPPED, "stop", ok)

workload_configure(s, fabric_name, workload_list, ok) ==
  IF ~HasProxy(s, fabric_name, workload_list) THEN Res(s, FALSE, {})
  ELSE node_playbook(s, fabric_name, WORKLOAD, workload_list, CONFIGURED, "configure", ok)

(* workload_start with no look at the processors of the VPC. *)
workload_start_unguarded(s, fabric_name, workload_list, ok) ==
  node_playbook(s, fabric_name, WORKLOAD, workload_list, STARTED, "start", ok)

workload_start(s, fabric_name, workload_list, ok) ==
  IF ~HasProxy(s, fabric_name, workload_list) THEN Res(s, FALSE, {})
  ELSE node_playbook(s, fabric_name, WORKLOAD, workload_list, STARTED, "start", ok)

workload_stop(s, fabric_name, workload_list, ok) ==
  IF ~HasProxy(s, fabric_name, workload_list) THEN Res(s, FALSE, {})
  ELSE node_playbook(s, fabric_name, WORKLOAD, workload_list, STOPPED, "stop", ok)

-----------------------------------------------------------------------------
(* bwctl.py: the processes of one user.  A process takes the lock         *)
(* ~/.bwctl/bwctl through PidFile, runs main() under it (Session() loads   *)
(* the state file, the commands dump it) and gives the lock back when      *)
(* main() is left, through sys.exit or an exception.  PidFile is taken by  *)
(* its contract: entering it fails when another process holds the lock.   *)

MaxProcs == 2

Procs == 1..MaxProcs

NoProc == 0

NoRun == [pc |-> "off", reads |-> FALSE, writes |-> FALSE, exit |-> 0]

Exited(run, code) == [run EXCEPT !.pc = "exited", !.exit = code]

(* A bwctl process is started. *)
Invoke(p) ==
  /\ proc[p].pc \in {"off", "exited"}
  /\ proc' = [proc EXCEPT ![p] = [NoRun EXCEPT !.pc = "started"]]
  /\ UNCHANGED <<pl, probe, pidfile, state, current_fabric, last>>

(* `with PidFile(...): main()` that calls main() whoever holds the lock. *)
Lock_unguarded(p) ==
  /\ proc[p].pc = "started"
  /\ pidfile' = p
  /\ proc' = [proc EXCEPT ![p].pc = "main"]
  /\ UNCHANGED <<pl, probe, state, current_fabric, last>>

(* `with PidFile(pidname, piddir=piddir)`: IOError when the lock file     *)
(* cannot be made, PidFileAlreadyLockedError when the lock is held; both  *)
(* end the process with exit code 1.                                       *)
Lock(p) ==
  /\ proc[p].pc = "started"
  /\ \E io_ok \in BOOLEAN :
       IF ~io_ok \/ pidfile # NoProc
         THEN /\ proc' = [proc EXCEPT ![p] = Exited(@, 1)]
              /\ UNCHANGED pidfile
         ELSE /\ pidfile' = p
              /\ proc' = [proc EXCEPT ![p].pc = "main"]
  /\ UNCHANGED <<pl, probe, state, current_fabric, last>>

(* main(): Session() loads the state. *)
Load(p) ==
  /\ proc[p].pc = "main"
  /\ proc' = [proc EXCEPT ![p].pc = "session", ![p].reads = TRUE]
  /\ UNCHANGED <<pl, probe, pidfile, state, current_fabric, last>>

(* A command of the session dumps the state. *)
Dump(p) ==
  /\ proc[p].pc = "session"
  /\ proc' = [proc EXCEPT ![p].writes = TRUE]
  /\ UNCHANGED <<pl, probe, pidfile, state, current_fabric, last>>

(* main() is left: the with block gives the lock back. *)
Leave(p) ==
  /\ proc[p].pc \in {"main", "session"}
  /\ \E code \in {0, 1} : proc' = [proc EXCEPT ![p] = Exited(@, code)]
  /\ pidfile' = NoProc
  /\ UNCHANGED <<pl, probe, state, current_fabric, last>>

-----------------------------------------------------------------------------
(* A command runs to its exit in one step: what it leaves behind is the   *)
(* state it last dumped, the current fabric, and what it did.  The        *)
(* commands are those of one process, taken apart from the lock.          *)

NoCmd ==
  [cmd |-> "none", arg |-> << >>, dry |-> FALSE, exit |-> 0, calls |-> {},
   fabrics |-> << >>, trace |-> << >>]

CmdInit ==
  /\ state = [fabric |-> EmptyDict, batch |-> EmptyDict]
  /\ current_fabric = NoFabric
  /\ last = NoCmd
  /\ pidfile = NoProc
  /\ proc = [p \in Procs |-> NoRun]

(* err.exit_code of a tool that has failed: a code that is not 0, taken   *)
(* here to differ from the 1 of sys.exit(1).                               *)
ToolExit == 2

(* The exit code of a command that ends through sys.exit(res[1]) or        *)
(* sys.exit(<tool>_result[1]): the code of the tool when a call of the     *)
(* command has failed, and the 1 of `return False, 1` otherwise.           *)
ExitOf(exit, calls) ==
  IF exit # 0 /\ \E c \in calls : ~c.ok THEN ToolExit ELSE exit

(* The calls of the steps of a run in the order in which the command      *)
(* makes them, every step after the one before it has returned: a step    *)
(* that makes no call leaves no entry.                                     *)
Issued(steps) == SelectSeq(steps, LAMBDA c : c # {})

(* The result of a step with the calls of the steps made so far. *)
Traced(res, trace) ==
  [st |-> res.st, ok |-> res.ok, calls |-> res.calls,
   trace |-> trace \o Issued(<<res.calls>>)]

(* The exit of a command that makes its calls one after the other:        *)
(* `trace` are the calls in the order of their making.                     *)
FinishTraced(cmd, arg, dry, new_state, exit, calls, trace) ==
  /\ state' = new_state
  /\ last' = [cmd |-> cmd, arg |-> arg, dry |-> dry, exit |-> ExitOf(exit, calls),
              calls |-> calls, fabrics |-> << >>, trace |-> trace]
  /\ UNCHANGED <<pl, probe, pidfile, proc, current_fabric>>

Finish(cmd, arg, dry, new_state, exit, calls) ==
  FinishTraced(cmd, arg, dry, new_state, exit, calls, << >>)

(* The exit of a batch command: `fabrics` are the fabrics whose round of  *)
(* the command's loop has run, `trace` the calls of create batch in the   *)
(* order of their making.                                                  *)
FinishBatch(cmd, arg, dry, new_state, exit, calls, fabrics, trace) ==
  /\ state' = new_state
  /\ last' = [cmd |-> cmd, arg |-> arg, dry |-> dry, exit |-> exit, calls |-> calls,
              fabrics |-> fabrics, trace |-> trace]
  /\ UNCHANGED <<pl, probe, pidfile, proc, current_fabric>>

-----------------------------------------------------------------------------
(* commands/create.py, create_batch.set_action_list: the actions appended  *)
(* for one entity, as the set of the lists of `actions` it is appended to. *)
(* One operator per branch of the outer if/elif on current_state; inside,  *)
(* the elif chain is kept in the order of the source.                      *)

RoleBearing(entity_role) == entity_role \in {WORKLOAD, PROCESSOR}

from_created_any_role(target_state, role) ==
  IF target_state = CONFIGURED THEN {"config"}
  ELSE IF target_state = STARTED THEN {"config", "start"}
  ELSE IF target_state = STOPPED THEN {"config", "stop"}
  ELSE {}

from_created(target_state, role) ==
  IF target_state = CONFIGURED THEN {"config"}
  ELSE IF target_state = STARTED /\ role THEN {"config", "start"}
  ELSE IF target_state = STOPPED /\ role THEN {"config", "stop"}
  ELSE {}

from_configured(current_status, target_state, role, changed) ==
  IF target_state = CONFIGURED /\ current_status = FAILED THEN {"config"}
  ELSE IF target_state = CONFIGURED /\ (role /\ changed) THEN {"config"}
  ELSE IF target_state = STARTED /\ (role /\ changed) THEN {"config", "start"}
  ELSE IF target_state = STARTED /\ (role /\ current_status = FAILED)
       THEN {"config", "start"}
  ELSE IF target_state = STARTED /\ role THEN {"start"}
  ELSE IF target_state = STOPPED /\ (role /\ changed) THEN {"config", "stop"}
  ELSE IF target_state = STOPPED /\ (role /\ current_status = FAILED)
       THEN {"config", "stop"}
  ELSE IF target_state = STOPPED /\ role THEN {"stop"}
  ELSE {}

from_started(current_status, target_state, role, changed) ==
  IF target_state = STARTED /\ current_status = FAILED THEN {"start"}
  ELSE IF target_state = STARTED /\ (role /\ changed) THEN {"config", "start"}
  ELSE IF target_state = STOPPED /\ (role /\ changed) THEN {"config", "stop"}
  ELSE IF target_state = STOPPED THEN {"stop"}
  ELSE {}

from_stopped(current_status, target_state, role, changed) ==
  IF target_state = STOPPED /\ current_status = FAILED THEN {"stop"}
  ELSE IF target_state = STOPPED /\ (role /\ changed) THEN {"config", "stop"}
  ELSE IF target_state = STARTED /\ (role /\ changed) THEN {"config", "start"}
  ELSE IF target_state = STARTED THEN {"start"}
  ELSE {}

set_action_list_no_diff(current_state, current_status, target_state, entity_role, batch_entity_conf, state_entity_conf) ==
  LET role == RoleBearing(entity_role)
  IN CASE current_state = CREATED -> from_created(target_state, role)
       [] current_state = CONFIGURED ->
            from_configured(current_status, target_state, role, FALSE)
       [] current_state = STARTED ->
            from_started(current_status, target_state, role, FALSE)
       [] current_state = STOPPED ->
            from_stopped(current_status, target_state, role, FALSE)
       [] OTHER -> {}

set_action_list(current_state, current_status, target_state, entity_role, batch_entity_conf, state_entity_conf) ==
  LET changed == batch_entity_conf # state_entity_conf
      role == RoleBearing(entity_role)
  IN CASE current_state = CREATED -> from_created(target_state, role)
       [] current_state = CONFIGURED ->
            from_configured(current_status, target_state, role, changed)
       [] current_state = STARTED ->
            from_started(current_status, target_state, role, changed)
       [] current_state = STOPPED ->
            from_stopped(current_status, target_state, role, changed)
       [] OTHER -> {}

-----------------------------------------------------------------------------
(* The planner on its own: every input create_batch can hand to            *)
(* set_action_list, then its result.  A node's state and status are set    *)
(* together (State.set_object_state_status) or are both the clean {};      *)
(* the orchestrator loop passes None for both configs, and no command      *)
(* starts or stops an orchestrator.                                        *)

ConfValues == {"confA", "confB"}

NoConf == "none"

PlanInputs ==
  [cur : ObjectState \cup {Clean}, status : ObjectStatus \cup {Clean},
   target : ObjectState, role : NodeKinds,
   bconf : ConfValues \cup {NoConf}, sconf : ConfValues \cup {NoConf},
   done : {FALSE}, out : {{}}]

PlanInputOk(p) ==
  /\ (p.cur = Clean) <=> (p.status = Clean)
  /\ IF p.role = ORCHESTRATOR
       THEN p.bconf = NoConf /\ p.sconf = NoConf /\ p.cur \notin {STARTED, STOPPED}
       ELSE p.bconf # NoConf /\ p.sconf # NoConf

PlanInit ==
  CmdInit /\ probe = Clean /\ pl \in {p \in PlanInputs : PlanInputOk(p)}

Plan ==
  /\ ~pl.done
  /\ pl' = [pl EXCEPT !.done = TRUE,
                      !.out = set_action_list(pl.cur, pl.status, pl.target,
                                              pl.role, pl.bconf, pl.sconf)]
  /\ UNCHANGED <<probe, pidfile, proc, state, current_fabric, last>>

PlanNext == Plan

SpecPlan == PlanInit /\ [][PlanNext]_vars

-----------------------------------------------------------------------------
(* The universe of the command model. *)

FabricNames == {"f1"}

Clouds == {"aws"}

MaxVpcIndex == 1

MaxNodeIndex == 2

AllOrchNames ==
  {node_name(vpc_name(c, i, f), "c", n, f) :
     c \in Clouds, i \in 1..MaxVpcIndex, f \in FabricNames, n \in 1..MaxNodeIndex}

AllVpcNames ==
  {vpc_name(c, i, f) : c \in Clouds, i \in 1..MaxVpcIndex, f \in FabricNames}

-----------------------------------------------------------------------------
(* commands/set.py *)

set_fabric(fabric_name) ==
  LET ok == /\ check_fabric(state, fabric_name)
            /\ \/ check_object_state(get_fabric(state, fabric_name), DELETING)
               \/ check_object_state_status(get_fabric(state, fabric_name),
                                            CONFIGURED, SUCCESS)
  IN /\ current_fabric' = IF ok THEN fabric_name ELSE current_fabric
     /\ last' = [cmd |-> "set fabric", arg |-> <<fabric_name>>, dry |-> FALSE,
                 exit |-> IF ok THEN 0 ELSE 1, calls |-> {}]
     /\ UNCHANGED <<pl, probe, pidfile, proc, state>>

-----------------------------------------------------------------------------
(* commands/create.py: create fabric, create vpc *)

create_fabric(fabric_name) ==
  LET cmd == "create fabric"
      arg == <<fabric_name>>
      exists == check_fabric(state, fabric_name)
  IN IF exists /\ (\/ ~check_object_status(get_fabric(state, fabric_name), FAILED)
                   \/ check_object_state(get_fabric(state, fabric_name), CONFIGURED))
       THEN Finish(cmd, arg, FALSE, state, 1, {})
       ELSE LET obj == IF exists THEN get_fabric(state, fabric_name)
                       ELSE get_clean_fabric
                temp_state == add_fabric(state, fabric_name,
                                 set_object_state_status(obj, CREATED, SUCCESS))
            IN \E ok \in BOOLEAN :
                 LET res == fabric_create(temp_state, fabric_name, ok)
                 IN IF ~res.ok
                      THEN Finish(cmd, arg, FALSE, state, 1, res.calls)
                      ELSE Finish(cmd, arg, FALSE, res.st, 0, res.calls)

CloudVpcs(s, fabric, vpc_cloud) ==
  {v \in DOMAIN s.fabric[fabric].vpc : s.fabric[fabric].vpc[v].cloud = vpc_cloud}

NextVpcIndex(s, fabric, vpc_cloud) ==
  IF CloudVpcs(s, fabric, vpc_cloud) = {} THEN 1
  ELSE Max({s.fabric[fabric].vpc[v].index : v \in CloudVpcs(s, fabric, vpc_cloud)}) + 1

create_vpc(vpc_cloud, dry_run) ==
  LET cmd == "create vpc"
      fabric == get_current_fabric(state, current_fabric)
  IN IF fabric = NoFabric
       THEN Finish(cmd, <<vpc_cloud>>, dry_run, state, 1, {})
       ELSE LET vpc_index == NextVpcIndex(state, fabric, vpc_cloud)
                obj_name == vpc_name(vpc_cloud, vpc_index, fabric)
                new_obj == [get_clean_vpc EXCEPT !.cloud = vpc_cloud,
                                                 !.index = vpc_index]
                temp_state == add_fabric_obj(state, fabric, VPC, obj_name, new_obj)
            IN /\ vpc_index <= MaxVpcIndex
               /\ IF check_vpc(state, fabric, obj_name)
                    THEN Finish(cmd, <<obj_name>>, dry_run, state, 1, {})
                  ELSE IF dry_run
                    THEN Finish(cmd, <<obj_name>>, dry_run, state, 0, {})
                  ELSE \E oc \in VpcCreateOutcomes :
                    LET res == vpc_create(temp_state, fabric, {obj_name},
                                          oc.creds, oc.ok)
                    IN IF ~res.ok
                         THEN Finish(cmd, <<obj_name>>, dry_run, state, 1, res.calls)
                         ELSE Finish(cmd, <<obj_name>>, dry_run, res.st, 0, res.calls)

-----------------------------------------------------------------------------
(* commands/create.py: create orchestrator | processor | workload.  The    *)
(* three commands differ in the kind, the name's letter and the            *)
(* orchestrator's duplicate-type check.  When the last node of the list   *)
(* is (created, failed), the command reads properties.dns_enabled of the  *)
(* node of the derived name: with no such node the lookup raises KeyError *)
(* and the command ends there.                                             *)

OrchestratorTypes == {"controller", "telemetry"}

SameTypeSuccess(s, fabric, orchestrator_type) ==
  {n \in DOMAIN s.fabric[fabric].orchestrator :
     /\ s.fabric[fabric].orchestrator[n].type = orchestrator_type
     /\ check_object_status(s.fabric[fabric].orchestrator[n], SUCCESS)}

create_node(cmd, obj_kind, obj_char, vpc, orchestrator_type) ==
  LET fabric == get_current_fabric(state, current_fabric)
      arg == <<obj_kind, vpc>>
  IN IF fabric = NoFabric
       THEN Finish(cmd, arg, FALSE, state, 1, {})
     ELSE IF ~check_vpc(state, fabric, vpc)
       THEN Finish(cmd, arg, FALSE, state, 1, {})
     ELSE IF obj_kind = ORCHESTRATOR
             /\ SameTypeSuccess(state, fabric, orchestrator_type) # {}
       THEN Finish(cmd, arg, FALSE, state, 1, {})
     ELSE
       LET objs == get_fabric_objects(state, obj_kind, fabric)
           obj_list == VpcNodes(state, fabric, obj_kind, vpc)
           max_index == Max({objs[n].index : n \in obj_list})
           again == /\ obj_list # {}
                    /\ check_object_state_status(objs[LastName(obj_list)],
                                                 CREATED, FAILED)
           obj_index ==
             IF obj_list = {} THEN 1
             ELSE IF ~again THEN max_index + 1
             ELSE max_index
           obj_name == node_name(vpc, obj_char, obj_index, fabric)
           clean == [get_clean_nodeobj(obj_kind) EXCEPT !.vpc = vpc,
                                                        !.index = obj_index]
           new_obj == IF obj_kind = ORCHESTRATOR
                        THEN [clean EXCEPT !.type = orchestrator_type]
                        ELSE clean
           temp_state == add_fabric_obj(state, fabric, obj_kind, obj_name, new_obj)
           target == {<<obj_kind, obj_name>>}
       IN /\ obj_index <= MaxNodeIndex
          /\ \E creds \in BOOLEAN :
               IF again /\ obj_name \notin DOMAIN objs
                 THEN Finish(cmd, arg, FALSE, state, 1, {})
               ELSE IF ~creds
                 THEN Finish(cmd, arg, FALSE, state, 1, {})
               ELSE IF ~obj_create_check(temp_state, fabric, target)
                 THEN Finish(cmd, arg, FALSE, state, 1, {})
               ELSE \E oc \in ObjCreateOutcomes(target) :
                 LET res == obj_create(temp_state, fabric, target, oc)
                 IN Finish(cmd, arg, FALSE, res.st, IF res.ok THEN 0 ELSE 1,
                           res.calls)

create_orchestrator(vpc, orchestrator_type) ==
  create_node("create orchestrator", ORCHESTRATOR, "c", vpc, orchestrator_type)

create_processor(vpc) ==
  create_node("create processor", PROCESSOR, "p", vpc, Clean)

create_workload(vpc) ==
  create_node("create workload", WORKLOAD, "w", vpc, Clean)

-----------------------------------------------------------------------------
(* commands/configure.py: configure orchestrator NAME | --all *)

NoName == << >>

HasController(s, fabric, names) ==
  \E n \in names : s.fabric[fabric].orchestrator[n].type = "controller"

config_orchestrator(orchestrator_name, all_nodes, dry_run) ==
  LET cmd == "configure orchestrator"
      arg == <<orchestrator_name, all_nodes>>
      fabric == get_current_fabric(state, current_fabric)
      Reject == Finish(cmd, arg, dry_run, state, 1, {})
  IN IF fabric = NoFabric THEN Reject
     ELSE
       LET orchs == get_fabric_objects(state, ORCHESTRATOR, fabric)
           obj_created_failed ==
             {n \in DOMAIN orchs : check_object_state_status(orchs[n], CREATED, FAILED)}
           obj_deleting ==
             {n \in DOMAIN orchs : check_object_state(orchs[n], DELETING)}
           obj_list == IF all_nodes
                         THEN (DOMAIN orchs \ obj_deleting) \ obj_created_failed
                         ELSE {orchestrator_name}
       IN IF all_nodes /\ orchestrator_name # NoName THEN Reject
          ELSE IF all_nodes /\ obj_list = {} THEN Reject
          ELSE IF ~all_nodes /\ orchestrator_name = NoName THEN Reject
          ELSE IF ~all_nodes /\ orchestrator_name \notin DOMAIN orchs THEN Reject
          ELSE IF ~all_nodes /\ orchestrator_name \in obj_deleting THEN Reject
          ELSE IF ~all_nodes /\ orchestrator_name \in obj_created_failed THEN Reject
          ELSE IF dry_run THEN Finish(cmd, arg, dry_run, state, 0, {})
          ELSE \E docker \in BOOLEAN :
            IF HasController(state, fabric, obj_list) /\ ~docker THEN Reject
            ELSE \E oc \in OrchConfigureOutcomes :
              LET res == orchestrator_configure(state, fabric, obj_list, oc)
              IN IF ~res.ok
                   THEN Finish(cmd, arg, dry_run, state, 1, res.calls)
                   ELSE Finish(cmd, arg, dry_run, res.st, 0, res.calls)

-----------------------------------------------------------------------------
(* commands/update.py: update orchestrator NAME | --all *)

update_orchestrator(orchestrator_name, all_nodes, dry_run) ==
  LET cmd == "update orchestrator"
      arg == <<orchestrator_name, all_nodes>>
      fabric == get_current_fabric(state, current_fabric)
      Reject == Finish(cmd, arg, dry_run, state, 1, {})
  IN IF fabric = NoFabric THEN Reject
     ELSE
       LET orchs == get_fabric_objects(state, ORCHESTRATOR, fabric)
           obj_created == {n \in DOMAIN orchs : check_object_state(orchs[n], CREATED)}
           obj_deleting == {n \in DOMAIN orchs : check_object_state(orchs[n], DELETING)}
           obj_list == IF all_nodes
                         THEN (DOMAIN orchs \ obj_deleting) \ obj_created
                         ELSE {orchestrator_name}
       IN IF all_nodes /\ orchestrator_name # NoName THEN Reject
          ELSE IF all_nodes /\ obj_list = {} THEN Reject
          ELSE IF ~all_nodes /\ orchestrator_name = NoName THEN Reject
          ELSE IF ~all_nodes /\ orchestrator_name \notin DOMAIN orchs THEN Reject
          ELSE IF ~all_nodes /\ orchestrator_name \in obj_deleting THEN Reject
          ELSE IF ~all_nodes /\ orchestrator_name \in obj_created THEN Reject
          ELSE IF dry_run THEN Finish(cmd, arg, dry_run, state, 0, {})
          ELSE \E ok \in BOOLEAN :
            LET res == obj_update(state, fabric, ORCHESTRATOR, obj_list, ok)
            IN Finish(cmd, arg, dry_run, res.st, IF res.ok THEN 0 ELSE 1, res.calls)

-----------------------------------------------------------------------------
(* commands/update.py: update processor NAME | --all.  Each step commits  *)
(* the working copy before the command looks at the step's result.         *)

(* State.update_actions_list *)
update_actions_list(s, fabric, entity_type, entity_list) ==
  LET objs == s.fabric[fabric][entity_type]
      in_state(states) == {n \in entity_list : get_object_state(objs[n]) \in states}
  IN [update |-> in_state({CREATED, UPDATED, CONFIGURED, STARTED, STOPPED}),
      config |-> in_state({CONFIGURED}),
      start |-> in_state({STARTED}), stop |-> in_state({STOPPED})]

UpdateOutcomes == {"ok", "update", "config", "stop", "start"}

update_processor(processor_name, all_nodes, dry_run) ==
  LET cmd == "update processor"
      arg == <<processor_name, all_nodes>>
      fabric == get_current_fabric(state, current_fabric)
      Reject == Finish(cmd, arg, dry_run, state, 1, {})
  IN IF fabric = NoFabric THEN Reject
     ELSE
       LET objs == get_fabric_objects(state, PROCESSOR, fabric)
           obj_created == {n \in DOMAIN objs : check_object_state(objs[n], CREATED)}
           obj_deleting == {n \in DOMAIN objs : check_object_state(objs[n], DELETING)}
           obj_list == IF all_nodes
                         THEN (DOMAIN objs \ obj_deleting) \ obj_created
                         ELSE {processor_name}
           actions_list == update_actions_list(state, fabric, PROCESSOR, obj_list)
           Add(prev, r) ==
             [st |-> r.st, ok |-> r.ok, calls |-> prev.calls \cup r.calls,
              trace |-> prev.trace \o Issued(<<r.calls>>)]
           Step(prev, list, r) == IF ~prev.ok \/ list = {} THEN prev ELSE Add(prev, r)
           Run(oc) ==
             With(Step(Traced(Res(state, TRUE, {}), << >>), actions_list.update,
                       obj_update(state, fabric, PROCESSOR, actions_list.update,
                                  oc # "update")), LAMBDA u :
             With(Step(u, actions_list.config,
                       processor_configure(u.st, fabric, actions_list.config,
                                           oc # "config")), LAMBDA c :
             With(Step(c, actions_list.stop,
                       processor_stop(c.st, fabric, actions_list.stop,
                                      oc # "stop")), LAMBDA p :
               Step(p, actions_list.start,
                    processor_start(p.st, fabric, actions_list.start,
                                    oc # "start")))))
       IN IF all_nodes /\ processor_name # NoName THEN Reject
          ELSE IF all_nodes /\ obj_list = {} THEN Reject
          ELSE IF ~all_nodes /\ processor_name = NoName THEN Reject
          ELSE IF ~all_nodes /\ processor_name \notin DOMAIN objs THEN Reject
          ELSE IF ~all_nodes /\ processor_name \in obj_deleting THEN Reject
          ELSE IF ~all_nodes /\ processor_name \in obj_created THEN Reject
          ELSE IF dry_run THEN Finish(cmd, arg, dry_run, state, 0, {})
          ELSE \E oc \in UpdateOutcomes :
            \E res \in {Run(oc)} :
              FinishTraced(cmd, arg, dry_run, res.st, IF res.ok THEN 0 ELSE 1,
                           res.calls, res.trace)

-----------------------------------------------------------------------------

(* commands/delete.py: delete orchestrator NAME *)

DeleteOutcomes == {"ok", "playbook", "credentials", "terraform"}

delete_orchestrator(orchestrator_name, dry_run) ==
  LET cmd == "delete orchestrator"
      arg == <<orchestrator_name>>
      fabric == get_current_fabric(state, current_fabric)
      Reject(calls) == Finish(cmd, arg, dry_run, state, 1, calls)
  IN IF fabric = NoFabric THEN Reject({})
     ELSE IF ~check_nodeobj(state, fabric, orchestrator_name, ORCHESTRATOR)
       THEN Reject({})
     ELSE IF dry_run THEN Finish(cmd, arg, dry_run, state, 0, {})
     ELSE
       LET obj == get_fabric_object(state, ORCHESTRATOR, orchestrator_name, fabric)
           managers == Managers(state, fabric)
           workers == Workers(state, fabric)
           target == OrchObjs({orchestrator_name})
           unconfigure == ~check_object_state(obj, CREATED) /\ managers # {}
           play(ok) == IF unconfigure
                         THEN {Call("ansible", "delete-orchestrator.yml", fabric,
                                    target, ok)}
                         ELSE {}
           tf(ok) == {Call("terraform", "delete", fabric, target, ok)}
           temp_state == delete_fabric_object(state, ORCHESTRATOR,
                                              orchestrator_name, fabric)
       IN IF unconfigure /\ obj.role = "manager" /\ workers # {} THEN Reject({})
          ELSE \E oc \in DeleteOutcomes :
            IF oc = "playbook" /\ unconfigure THEN Reject(play(FALSE))
            ELSE IF oc = "credentials" THEN Reject(play(TRUE))
            ELSE IF oc = "terraform" THEN Reject(play(TRUE) \cup tf(FALSE))
            ELSE Finish(cmd, arg, dry_run, temp_state, 0, play(TRUE) \cup tf(TRUE))

-----------------------------------------------------------------------------
(* commands/configure.py: configure fabric (no --credentials-file and no  *)
(* --ssh-private-key option; the company name is set in the config).      *)

config_fabric(fabric_name) ==
  LET cmd == "configure fabric"
      arg == <<fabric_name>>
  IN IF ~check_fabric(state, fabric_name)
       THEN Finish(cmd, arg, FALSE, state, 1, {})
       ELSE LET fabric == get_fabric(state, fabric_name)
                named == IF check_object_state(fabric, CREATED)
                           THEN [fabric EXCEPT !.config = "company"] ELSE fabric
                temp_state == add_fabric(state, fabric_name, named)
            IN IF check_object_state(fabric, DELETING)
                 THEN Finish(cmd, arg, FALSE, state, 1, {})
               ELSE IF check_object_state_status(fabric, CONFIGURED, SUCCESS)
                 THEN Finish(cmd, arg, FALSE, state, 1, {})
               ELSE \E ok \in BOOLEAN :
                 LET res == fabric_configure(temp_state, fabric_name, ok)
                 IN IF ~res.ok
                      THEN Finish(cmd, arg, FALSE, state, 1, res.calls)
                      ELSE Finish(cmd, arg, FALSE, res.st, 0, res.calls)

-----------------------------------------------------------------------------
-----------------------------------------------------------------------------
(* commands/start.py, commands/stop.py: start | stop processor | workload  *)
(* NAME | --all.  The two commands of a kind differ in the kind only.      *)

(* start processor | workload with an --all list that leaves out the      *)
(* created objects only.                                                   *)
start_node_keeping_deleting(obj_kind, name, all_nodes, dry_run) ==
  LET cmd == "start " \o obj_kind
      arg == <<name, all_nodes>>
      fabric == get_current_fabric(state, current_fabric)
      Reject == Finish(cmd, arg, dry_run, state, 1, {})
  IN IF fabric = NoFabric THEN Reject
     ELSE
       LET objs == get_fabric_objects(state, obj_kind, fabric)
           obj_list == IF all_nodes
                         THEN {n \in DOMAIN objs : ~check_object_state(objs[n], CREATED)}
                         ELSE {name}
       IN IF all_nodes /\ name # NoName THEN Reject
          ELSE IF all_nodes /\ obj_list = {} THEN Reject
          ELSE IF ~all_nodes /\ name = NoName THEN Reject
          ELSE IF ~all_nodes /\ name \notin DOMAIN objs THEN Reject
          ELSE IF ~all_nodes /\ check_object_state(objs[name], DELETING) THEN Reject
          ELSE IF ~all_nodes /\ check_object_state_status(objs[name], STARTED, SUCCESS)
            THEN Finish(cmd, arg, dry_run, state, 0, {})
          ELSE IF ~all_nodes /\ get_object_state(objs[name]) \notin {CONFIGURED, STOPPED}
            THEN Reject
          ELSE IF dry_run THEN Finish(cmd, arg, dry_run, state, 0, {})
          ELSE \E ok \in BOOLEAN :
            LET res == IF obj_kind = WORKLOAD
                         THEN workload_start(state, fabric, obj_list, ok)
                         ELSE processor_start(state, fabric, obj_list, ok)
            IN Finish(cmd, arg, dry_run, res.st, IF res.ok THEN 0 ELSE 1, res.calls)

start_node(obj_kind, name, all_nodes, dry_run) ==
  LET cmd == "start " \o obj_kind
      arg == <<name, all_nodes>>
      fabric == get_current_fabric(state, current_fabric)
      Reject == Finish(cmd, arg, dry_run, state, 1, {})
  IN IF fabric = NoFabric THEN Reject
     ELSE
       LET objs == get_fabric_objects(state, obj_kind, fabric)
           obj_list == IF all_nodes
                         THEN {n \in DOMAIN objs :
                                 /\ ~check_object_state(objs[n], DELETING)
                                 /\ ~check_object_state(objs[n], CREATED)}
                         ELSE {name}
       IN IF all_nodes /\ name # NoName THEN Reject
          ELSE IF all_nodes /\ obj_list = {} THEN Reject
          ELSE IF ~all_nodes /\ name = NoName THEN Reject
          ELSE IF ~all_nodes /\ name \notin DOMAIN objs THEN Reject
          ELSE IF ~all_nodes /\ check_object_state(objs[name], DELETING) THEN Reject
          ELSE IF ~all_nodes /\ check_object_state_status(objs[name], STARTED, SUCCESS)
            THEN Finish(cmd, arg, dry_run, state, 0, {})
          ELSE IF ~all_nodes /\ get_object_state(objs[name]) \notin {CONFIGURED, STOPPED}
            THEN Reject
          ELSE IF dry_run THEN Finish(cmd, arg, dry_run, state, 0, {})
          ELSE \E ok \in BOOLEAN :
            LET res == IF obj_kind = WORKLOAD
                         THEN workload_start(state, fabric, obj_list, ok)
                         ELSE processor_start(state, fabric, obj_list, ok)
            IN Finish(cmd, arg, dry_run, res.st, IF res.ok THEN 0 ELSE 1, res.calls)

stop_node(obj_kind, name, all_nodes, dry_run) ==
  LET cmd == "stop " \o obj_kind
      arg == <<name, all_nodes>>
      fabric == get_current_fabric(state, current_fabric)
      Reject == Finish(cmd, arg, dry_run, state, 1, {})
  IN IF fabric = NoFabric THEN Reject
     ELSE
       LET objs == get_fabric_objects(state, obj_kind, fabric)
           obj_list == IF all_nodes
                         THEN {n \in DOMAIN objs :
                                 /\ ~check_object_state(objs[n], DELETING)
                                 /\ ~check_object_state(objs[n], CREATED)}
                         ELSE {name}
       IN IF all_nodes /\ name # NoName THEN Reject
          ELSE IF all_nodes /\ obj_list = {} THEN Reject
          ELSE IF ~all_nodes /\ name = NoName THEN Reject
          ELSE IF ~all_nodes /\ name \notin DOMAIN objs THEN Reject
          ELSE IF ~all_nodes /\ check_object_state(objs[name], DELETING) THEN Reject
          ELSE IF ~all_nodes /\ check_object_state_status(objs[name], STOPPED, SUCCESS)
            THEN Finish(cmd, arg, dry_run, state, 0, {})
          ELSE IF ~all_nodes /\ ~check_object_state(objs[name], STARTED) THEN Reject
          ELSE IF dry_run THEN Finish(cmd, arg, dry_run, state, 0, {})
          ELSE \E ok \in BOOLEAN :
            LET res == IF obj_kind = WORKLOAD
                         THEN workload_stop(state, fabric, obj_list, ok)
                         ELSE processor_stop(state, fabric, obj_list, ok)
            IN Finish(cmd, arg, dry_run, res.st, IF res.ok THEN 0 ELSE 1, res.calls)

-----------------------------------------------------------------------------
(* commands/configure.py: configure processor | workload NAME | --all      *)
(* [--orchestrator-fqdn FQDN].  A node's config is told by the value of    *)
(* its 'orchestrator' key; --location is left out.                          *)

(* obj['config']['orchestrator'] = orchestrator_fqdn, for every node of    *)
(* the list.                                                               *)
SetFqdn(s, fabric, obj_kind, obj_list, orchestrator_fqdn) ==
  LET objs == s.fabric[fabric][obj_kind]
  IN IF orchestrator_fqdn = NoConf THEN s
     ELSE [s EXCEPT !.fabric[fabric][obj_kind] =
             [n \in DOMAIN objs |->
                IF n \in obj_list THEN [objs[n] EXCEPT !.config = orchestrator_fqdn]
                ELSE objs[n]]]

(* configure_actions_list with the started nodes on the stop list too. *)
configure_actions_list_both(s, fabric, entity_type, entity_list) ==
  LET objs == s.fabric[fabric][entity_type]
      in_state(states) == {n \in entity_list : get_object_state(objs[n]) \in states}
  IN [config |-> in_state({CREATED, CONFIGURED, STARTED, STOPPED}),
      start |-> in_state({STARTED}), stop |-> in_state({STARTED, STOPPED})]

(* State.configure_actions_list *)
configure_actions_list(s, fabric, entity_type, entity_list) ==
  LET objs == s.fabric[fabric][entity_type]
      in_state(states) == {n \in entity_list : get_object_state(objs[n]) \in states}
  IN [config |-> in_state({CREATED, CONFIGURED, STARTED, STOPPED}),
      start |-> in_state({STARTED}), stop |-> in_state({STOPPED})]

ConfigOutcomes == {"ok", "config", "stop", "start"}

config_node(obj_kind, name, all_nodes, orchestrator_fqdn, dry_run) ==
  LET cmd == "configure " \o obj_kind
      arg == <<name, all_nodes, orchestrator_fqdn>>
      fabric == get_current_fabric(state, current_fabric)
      Reject == Finish(cmd, arg, dry_run, state, 1, {})
  IN IF fabric = NoFabric THEN Reject
     ELSE
       LET objs == get_fabric_objects(state, obj_kind, fabric)
           obj_created ==
             {n \in DOMAIN objs : check_object_state_status(objs[n], CREATED, SUCCESS)}
           obj_created_failed ==
             {n \in DOMAIN objs : check_object_state_status(objs[n], CREATED, FAILED)}
           obj_deleting == {n \in DOMAIN objs : check_object_state(objs[n], DELETING)}
           obj_list == IF all_nodes
                         THEN (DOMAIN objs \ obj_deleting) \ obj_created_failed
                         ELSE {name}
           temp_state == SetFqdn(state, fabric, obj_kind, obj_list, orchestrator_fqdn)
           actions_list == configure_actions_list(temp_state, fabric, obj_kind, obj_list)
           (* The stop and start steps of configure workload are made on   *)
           (* the session's state, which temp_state then replaces.         *)
           Configure(oc) ==
             IF actions_list.config = {} THEN Res(temp_state, TRUE, {})
             ELSE IF obj_kind = WORKLOAD
               THEN workload_configure(temp_state, fabric, actions_list.config,
                                       oc # "config")
             ELSE processor_configure(temp_state, fabric, actions_list.config,
                                      oc # "config")
           Stop(c, oc) ==
             IF obj_kind = WORKLOAD
               THEN [workload_stop(state, fabric, actions_list.stop, oc # "stop")
                       EXCEPT !.st = c.st]
               ELSE processor_stop(c.st, fabric, actions_list.stop, oc # "stop")
           Start(p, oc) ==
             IF obj_kind = WORKLOAD
               THEN [workload_start(state, fabric, actions_list.start, oc # "start")
                       EXCEPT !.st = p.st]
               ELSE processor_start(p.st, fabric, actions_list.start, oc # "start")
           Add(prev, r) ==
             [st |-> r.st, ok |-> r.ok, calls |-> prev.calls \cup r.calls,
              trace |-> prev.trace \o Issued(<<r.calls>>)]
           Run(oc) ==
             With(Traced(Configure(oc), << >>), LAMBDA c :
               IF ~c.ok THEN c
               ELSE With(IF actions_list.stop = {} THEN c ELSE Add(c, Stop(c, oc)),
                         LAMBDA p :
                      IF ~p.ok \/ actions_list.start = {} THEN p
                      ELSE Add(p, Start(p, oc))))
       IN IF all_nodes /\ name # NoName THEN Reject
          ELSE IF all_nodes /\ obj_list = {} THEN Reject
          ELSE IF all_nodes /\ obj_created # {} /\ orchestrator_fqdn = NoConf THEN Reject
          ELSE IF ~all_nodes /\ name = NoName THEN Reject
          ELSE IF ~all_nodes /\ name \notin DOMAIN objs THEN Reject
          ELSE IF ~all_nodes /\ name \in obj_deleting THEN Reject
          ELSE IF ~all_nodes /\ check_object_state(objs[name], CREATED)
                  /\ orchestrator_fqdn = NoConf THEN Reject
          ELSE IF ~all_nodes /\ name \in obj_created_failed THEN Reject
          ELSE IF dry_run THEN Finish(cmd, arg, dry_run, state, 0, {})
          ELSE \E oc \in ConfigOutcomes :
            \E res \in {Run(oc)} :
              FinishTraced(cmd, arg, dry_run, res.st, IF res.ok THEN 0 ELSE 1,
                           res.calls, res.trace)

(* The command model: any command, with any outcome of its external calls. *)

-----------------------------------------------------------------------------
(* commands/create.py: create batch FILE.  A batch file is a record of    *)
(* the lists of its objects by kind, each object holding its name, its    *)
(* fabric and the fields of its spec that the command reads.  A NodeBatch  *)
(* holds one template, of a processor or of a workload.                    *)

(* State.api_version, and BatchSpec.check_batch_version on the apiVersion  *)
(* of the file.                                                            *)
api_version == "fabric.bayware.io/v2"

check_batch_version(batch) == batch.apiVersion = api_version

BFabric(name) == [name |-> name, fabric |-> name]

BVpc(name, cloud) == [name |-> name, fabric |-> name[3], cloud |-> cloud]

BOrchestrator(name, vpc, type, role, st) ==
  [name |-> name, fabric |-> name[4], vpc |-> vpc, type |-> type, role |-> role,
   state |-> st]

BNode(name, vpc, st, config) ==
  [name |-> name, fabric |-> name[4], vpc |-> vpc, state |-> st, config |-> config]

(* A NodeBatch: spec.instanceCount and the kind, the VPC, the configuration *)
(* and the state of the object of spec.template.                            *)
BNodeBatch(name, fabric, vpc, kind, instanceCount, st, config) ==
  [name |-> name, fabric |-> fabric, vpc |-> vpc, kind |-> kind,
   instanceCount |-> instanceCount, state |-> st, config |-> config]

Range(seq) == {seq[i] : i \in 1..Len(seq)}

Remove(seq, x) == SelectSeq(seq, LAMBDA y : y # x)

RECURSIVE Dedup(_)
Dedup(seq) ==
  IF seq = << >> THEN << >>
  ELSE <<Head(seq)>> \o Dedup(Remove(Tail(seq), Head(seq)))

FabricsOf(seq) == [i \in 1..Len(seq) |-> seq[i].fabric]

(* The keys of create_target, in the order of their insertion. *)
TargetFabrics(batch) ==
  Dedup(FabricsOf(batch.fabric) \o FabricsOf(batch.vpc) \o FabricsOf(batch.nodebatch)
          \o FabricsOf(batch.workload) \o FabricsOf(batch.processor)
          \o FabricsOf(batch.orchestrator))

(* create_target[fabric][obj_kind] *)
Target(batch, fabric, obj_kind) ==
  LET sel == SelectSeq(batch[obj_kind], LAMBDA o : o.fabric = fabric)
  IN [i \in 1..Len(sel) |-> sel[i].name]

(* [item for item in batch.get_attr_list(kind) if name matches][0] *)
BatchObj(batch, obj_kind, name) ==
  LET sel == SelectSeq(batch[obj_kind], LAMBDA o : o.name = name) IN sel[1]

(* The external calls of one run that fail, as <<fabric, call point>>. *)
Fails(F, fabric, point) == <<fabric, point>> \in F

(* The fabric block of create_batch: create and configure the fabric the  *)
(* batch declares.  `go` tells whether the loop goes on with this fabric. *)
BatchFabricBlock(pub, batch, fabric, F) ==
  IF fabric \notin Range(Target(batch, fabric, FABRIC))
    THEN [pub |-> pub, go |-> TRUE, ok |-> TRUE, calls |-> {}, trace |-> << >>]
  ELSE
    LET skip_fabric_create ==
          /\ check_fabric(pub, fabric)
          /\ ~check_object_state_status(get_fabric(pub, fabric), CREATED, FAILED)
        new_fabric == IF check_fabric(pub, fabric) THEN get_fabric(pub, fabric)
                      ELSE get_clean_fabric
        created ==
          IF skip_fabric_create THEN Res(pub, TRUE, {})
          ELSE fabric_create(
                 add_fabric(pub, fabric,
                            set_object_state_status(new_fabric, CREATED, SUCCESS)),
                 fabric, ~Fails(F, fabric, "fabric_create"))
        pub1 == created.st
        obj1 == get_fabric(pub1, fabric)
        configured ==
          IF \/ check_object_state(obj1, CREATED)
             \/ check_object_state_status(obj1, CONFIGURED, FAILED)
            THEN fabric_configure(pub1, fabric, ~Fails(F, fabric, "fabric_configure"))
            ELSE Res(pub1, TRUE, {})
        pub2 == configured.st
    IN IF ~skip_fabric_create /\ check_object_status(obj1, FAILED)
         THEN [pub |-> pub1, go |-> FALSE, ok |-> FALSE, calls |-> created.calls,
               trace |-> Issued(<<created.calls>>)]
       ELSE IF check_object_status(get_fabric(pub2, fabric), FAILED)
         THEN [pub |-> pub2, go |-> FALSE, ok |-> FALSE,
               calls |-> created.calls \cup configured.calls,
               trace |-> Issued(<<created.calls, configured.calls>>)]
       ELSE [pub |-> pub2, go |-> TRUE, ok |-> TRUE,
             calls |-> created.calls \cup configured.calls,
             trace |-> Issued(<<created.calls, configured.calls>>)]

(* The VPC generation loop of create_batch. *)
RECURSIVE GenVpcs(_, _, _, _)
GenVpcs(acc0, batch, fabric, vpc_list) ==
  IF vpc_list = << >> THEN acc0
  ELSE With(acc0, LAMBDA acc :
    LET vpc == Head(vpc_list)
        vpc_obj == BatchObj(batch, VPC, vpc)
        vpc_cloud == vpc_obj.cloud
        s == acc.st
        exists == check_vpc(s, fabric, vpc)
        old == get_fabric_object(s, VPC, vpc, fabric)
        cloud_vpc_list == {v \in DOMAIN s.fabric[fabric].vpc :
                             s.fabric[fabric].vpc[v].cloud = vpc_cloud}
        first == IF cloud_vpc_list = {} THEN 1
                 ELSE Max({s.fabric[fabric].vpc[v].index : v \in cloud_vpc_list}) + 1
        index == IF exists THEN acc.index
                 ELSE IF vpc_cloud \notin DOMAIN acc.index
                   THEN Put(acc.index, vpc_cloud, first)
                 ELSE Put(acc.index, vpc_cloud, acc.index[vpc_cloud] + 1)
        new_vpc == [(IF exists THEN old ELSE get_clean_vpc) EXCEPT
                      !.cloud = vpc_cloud,
                      !.index = IF exists THEN old.index ELSE index[vpc_cloud]]
        drop == [acc EXCEPT !.target = Remove(@, vpc)]
    IN IF ~check_fabric(s, vpc_obj.fabric)
         THEN GenVpcs(drop, batch, fabric, Tail(vpc_list))
       ELSE IF exists /\ check_object_state_status(old, CREATED, SUCCESS)
         THEN GenVpcs(drop, batch, fabric, Tail(vpc_list))
       ELSE GenVpcs([st |-> add_fabric_obj(s, fabric, VPC, vpc, new_vpc),
                     target |-> acc.target, index |-> index],
                    batch, fabric, Tail(vpc_list)))

(* The VPC block of create_batch; `exit` tells that the command has left  *)
(* through sys.exit.                                                       *)
BatchVpcBlock(pub, batch, fabric, F) ==
  With(GenVpcs([st |-> pub, target |-> Target(batch, fabric, VPC),
                index |-> EmptyDict],
               batch, fabric, Target(batch, fabric, VPC)), LAMBDA gen :
    IF gen.target = << >>
      THEN [pub |-> pub, exit |-> FALSE, calls |-> {}, trace |-> << >>]
    ELSE With(vpc_create(gen.st, fabric, Range(gen.target),
                         ~Fails(F, fabric, "vpc_credentials"),
                         ~Fails(F, fabric, "vpc")), LAMBDA res :
           [pub |-> res.st, exit |-> ~res.ok, calls |-> res.calls,
            trace |-> Issued(<<res.calls>>)]))

(* node_list as the generation loop walks it: the processors, the        *)
(* workloads, then the orchestrators of the fabric.                       *)
NodeList(batch, fabric) ==
  LET of(kind) == [i \in 1..Len(Target(batch, fabric, kind)) |->
                     <<kind, Target(batch, fabric, kind)[i]>>]
  IN of(PROCESSOR) \o of(WORKLOAD) \o of(ORCHESTRATOR)

(* The node generation loop of create_batch: acc.temp is temp_nodes_list, *)
(* acc.in_batch the types flagged in orchestrator_in_batch, acc.index     *)
(* node_index_list.                                                        *)
RECURSIVE GenNodes(_, _, _, _)
GenNodes(acc0, batch, fabric, node_list) ==
  IF node_list = << >> THEN acc0
  ELSE With(acc0, LAMBDA acc :
    LET obj_kind == Head(node_list)[1]
        node == Head(node_list)[2]
        node_obj == BatchObj(batch, obj_kind, node)
        s == acc.st
        objs == get_fabric_objects(s, obj_kind, fabric)
        is_orch == obj_kind = ORCHESTRATOR
        orch_list == {n \in DOMAIN objs :
                        /\ objs[n].type = node_obj.type
                        /\ check_object_status(objs[n], SUCCESS)
                        /\ n # node}
        batch_list == {o \in Range(batch.orchestrator) :
                         o.type = node_obj.type /\ o.name # node}
        in_batch == IF is_orch /\ batch_list # {}
                      THEN acc.in_batch \cup {node_obj.type} ELSE acc.in_batch
        node_vpc == node_obj.vpc
        exists == check_nodeobj(s, fabric, node, obj_kind)
        old == get_fabric_object(s, obj_kind, node, fabric)
        key == <<node_vpc, obj_kind>>
        type_node_list == VpcNodes(s, fabric, obj_kind, node_vpc)
        first == IF type_node_list = {} THEN 1
                 ELSE Max({objs[n].index : n \in type_node_list}) + 1
        index == IF exists THEN acc.index
                 ELSE IF key \notin DOMAIN acc.index THEN Put(acc.index, key, first)
                 ELSE Put(acc.index, key, acc.index[key] + 1)
        placed == [(IF exists THEN old ELSE get_clean_nodeobj(obj_kind)) EXCEPT
                     !.vpc = node_vpc,
                     !.index = IF exists THEN old.index ELSE index[key]]
        new_node == IF is_orch
                      THEN [placed EXCEPT !.role = node_obj.role, !.type = node_obj.type]
                      ELSE placed
        drop(flags) == [acc EXCEPT !.temp = @ \ {<<obj_kind, node>>}, !.in_batch = flags]
        rest == Tail(node_list)
    IN IF is_orch /\ orch_list # {}
         THEN GenNodes(drop(acc.in_batch), batch, fabric, rest)
       ELSE IF is_orch /\ node_obj.type \in acc.in_batch
         THEN GenNodes(drop(acc.in_batch), batch, fabric, rest)
       ELSE IF ~check_fabric(s, node_obj.fabric)
         THEN GenNodes(drop(in_batch), batch, fabric, rest)
       ELSE IF ~check_vpc(s, fabric, node_vpc)
         THEN GenNodes(drop(in_batch), batch, fabric, rest)
       ELSE IF exists /\ ~check_object_state_status(old, CREATED, FAILED)
         THEN GenNodes(drop(in_batch), batch, fabric, rest)
       ELSE GenNodes([st |-> add_fabric_obj(s, fabric, obj_kind, node, new_node),
                      temp |-> acc.temp, in_batch |-> in_batch, index |-> index],
                     batch, fabric, rest))

(* The outcome of State.obj_create in a batch run. *)
BatchObjCreateOutcome(F, fabric, objs) ==
  LET kinds == {k \in {o[1] : o \in objs} : Fails(F, fabric, "node_" \o k)}
  IN IF Fails(F, fabric, "terraform") THEN [fail |-> "terraform", kinds |-> {}]
     ELSE IF kinds # {} THEN [fail |-> "node", kinds |-> kinds]
     ELSE IF Fails(F, fabric, "create_node") THEN [fail |-> "playbook", kinds |-> {}]
     ELSE ObjCreateOk

(* State.check_nodebatch, get_nodebatch, add_batch, add_batch_obj and     *)
(* delete_nodebatch.  An entry of state['batch'] holds its state, the     *)
(* kind of its nodes and, by name, the node objects kept for that kind.    *)
check_nodebatch(s, name) == name \in DOMAIN s.batch

get_nodebatch(s, name) == s.batch[name]

add_batch(s, batch_name, batch) == [s EXCEPT !.batch = Put(s.batch, batch_name, batch)]

add_batch_obj(s, batch_name, obj_name, obj) ==
  [s EXCEPT !.batch[batch_name].nodes = Put(s.batch[batch_name].nodes, obj_name, obj)]

delete_nodebatch(s, name) == [s EXCEPT !.batch = Del(s.batch, name)]

(* State.nodebatch_check_success: the entries of nodebatch_targets whose   *)
(* own state is target_obj_state and whose kind is nodebatch_type leave    *)
(* the state.                                                              *)
RECURSIVE nodebatch_check_success(_, _, _, _)
nodebatch_check_success(s, nodebatch_targets, target_obj_state, nodebatch_type) ==
  IF nodebatch_targets = << >> THEN [st |-> s, targets |-> << >>]
  ELSE
    LET nodebatch == Head(nodebatch_targets)
        nodebatch_obj == get_nodebatch(s, nodebatch)
        done == /\ check_object_state(nodebatch_obj, target_obj_state)
                /\ nodebatch_obj.kind = nodebatch_type
    IN With(nodebatch_check_success(IF done THEN delete_nodebatch(s, nodebatch) ELSE s,
                                    Tail(nodebatch_targets), target_obj_state,
                                    nodebatch_type), LAMBDA r :
         [st |-> r.st,
          targets |-> IF done THEN r.targets ELSE <<nodebatch>> \o r.targets])

(* str(index) *)
RECURSIVE Str(_)
Str(n) == IF n < 10 THEN <<n>> ELSE Str(n \div 10) \o <<n % 10>>

(* vpc.split("-")[0] + '-' + char_type + '0' + str(index) + '-' + fabric *)
nodebatch_node_name(vpc, char_type, index, fabric) ==
  <<vpc_token(vpc), char_type, <<0>> \o Str(index), fabric>>

node_types_list == [processor |-> "p", workload |-> "w"]

(* The names that create_batch generates for a NodeBatch it does not find *)
(* in the state, in the order of their generation.                         *)
NodeBatchNames(s, fabric, nb) ==
  LET objs == get_fabric_objects(s, nb.kind, fabric)
      nodebatch_node_vpc_list == VpcNodes(s, fabric, nb.kind, nb.vpc)
      nodebatch_node_index ==
        IF nodebatch_node_vpc_list = {} THEN 1
        ELSE Max({objs[n].index : n \in nodebatch_node_vpc_list}) + 1
  IN [i \in 1..nb.instanceCount |->
        nodebatch_node_name(nb.vpc, node_types_list[nb.kind],
                            nodebatch_node_index + i - 1, fabric)]

(* The NodeBatch put in the state with its generated nodes. *)
RECURSIVE AddBatchNodes(_, _, _, _)
AddBatchNodes(s, nb, fabric, names) ==
  IF names = << >> THEN s
  ELSE AddBatchNodes(
         add_batch_obj(s, nb.name, Head(names),
                       [name |-> Head(names), fabric |-> fabric, vpc |-> nb.vpc,
                        state |-> nb.state, config |-> nb.config]),
         nb, fabric, Tail(names))

(* The keys of a dict of node names in the order of the dumped file. *)
RECURSIVE Sorted(_)
Sorted(names) ==
  IF names = {} THEN << >>
  ELSE Append(Sorted(names \ {LastName(names)}), LastName(names))

(* The loop over the nodes of one NodeBatch: acc.added are the nodes put  *)
(* on create_target and on the list of the batch.  node_index_list is     *)
(* read here under the name of the kind, and under the ObjectKind member  *)
(* in the loop of the declared nodes.                                      *)
RECURSIVE GenBatchNodes(_, _, _, _)
GenBatchNodes(acc0, fabric, nodebatch_obj, node_list) ==
  IF node_list = << >> THEN acc0
  ELSE With(acc0, LAMBDA acc :
    LET node == Head(node_list)
        node_obj == nodebatch_obj.nodes[node]
        node_type == nodebatch_obj.kind
        node_vpc == node_obj.vpc
        s == acc.st
        objs == get_fabric_objects(s, node_type, fabric)
        exists == check_nodeobj(s, fabric, node, node_type)
        old == get_fabric_object(s, node_type, node, fabric)
        key == <<node_vpc, "str", node_type>>
        type_node_list == VpcNodes(s, fabric, node_type, node_vpc)
        first == IF type_node_list = {} THEN 1
                 ELSE Max({objs[n].index : n \in type_node_list}) + 1
        index == IF exists THEN acc.index
                 ELSE IF key \notin DOMAIN acc.index THEN Put(acc.index, key, first)
                 ELSE Put(acc.index, key, acc.index[key] + 1)
        new_node == [(IF exists THEN old ELSE get_clean_nodeobj(node_type)) EXCEPT
                       !.vpc = node_vpc,
                       !.index = IF exists THEN old.index ELSE index[key]]
        added == Append(acc.added, <<node_type, node_obj>>)
        rest == Tail(node_list)
    IN IF ~check_fabric(s, node_obj.fabric) \/ ~check_vpc(s, fabric, node_vpc)
         THEN GenBatchNodes(acc, fabric, nodebatch_obj, rest)
       ELSE IF exists /\ check_object_state_status(old, CREATED, SUCCESS)
         THEN GenBatchNodes([acc EXCEPT !.added = added], fabric, nodebatch_obj, rest)
       ELSE GenBatchNodes([acc EXCEPT
                             !.st = add_fabric_obj(s, fabric, node_type, node, new_node),
                             !.temp = @ \cup {<<node_type, node>>},
                             !.index = index, !.added = added],
                          fabric, nodebatch_obj, rest))

(* The NodeBatch loop of create_batch: acc.nbt is                         *)
(* create_target[fabric][NODEBATCH], acc.pub the state as last dumped.    *)
RECURSIVE GenNodeBatches(_, _, _, _)
GenNodeBatches(acc0, batch, fabric, nodebatch_list) ==
  IF nodebatch_list = << >> THEN acc0
  ELSE With(acc0, LAMBDA acc :
    LET nodebatch == Head(nodebatch_list)
        nb == BatchObj(batch, NODEBATCH, nodebatch)
        s == acc.st
        names == NodeBatchNames(s, fabric, nb)
        created == AddBatchNodes(
                     add_batch(s, nodebatch,
                               [state |-> CREATED, kind |-> nb.kind, nodes |-> EmptyDict]),
                     nb, fabric, names)
        rest == Tail(nodebatch_list)
    IN IF ~check_fabric(s, fabric) \/ ~check_vpc(s, fabric, nb.vpc)
         THEN GenNodeBatches([acc EXCEPT !.nbt = Remove(@, nodebatch)], batch, fabric, rest)
       ELSE IF ~check_nodebatch(s, nodebatch)
         THEN GenNodeBatches(
                GenBatchNodes([acc EXCEPT !.st = created, !.pub = created], fabric,
                              get_nodebatch(created, nodebatch), names),
                batch, fabric, rest)
       ELSE GenNodeBatches(
              GenBatchNodes(acc, fabric, get_nodebatch(s, nodebatch),
                            Sorted(DOMAIN get_nodebatch(s, nodebatch).nodes)),
              batch, fabric, rest))

(* The batch with the nodes that the NodeBatch loop has put on its lists. *)
RECURSIVE WithAdded(_, _)
WithAdded(batch, added) ==
  IF added = << >> THEN batch
  ELSE LET obj_kind == Head(added)[1]
           node_obj == Head(added)[2]
       IN WithAdded([batch EXCEPT ![obj_kind] = Append(@, node_obj)], Tail(added))

(* The two checks that end the Terraform zone of create_batch. *)
NodeBatchesCreated(s, nodebatch_targets) ==
  With(nodebatch_check_success(s, nodebatch_targets, CREATED, WORKLOAD), LAMBDA w :
    nodebatch_check_success(w.st, w.targets, CREATED, PROCESSOR).st)

(* The node block of create_batch: `batch` is the batch as the Ansible    *)
(* zone reads it.                                                          *)
BatchNodeBlock(pub, batch, fabric, F) ==
  With(GenNodes([st |-> pub, temp |-> Range(NodeList(batch, fabric)),
                 in_batch |-> {}, index |-> EmptyDict],
                batch, fabric, NodeList(batch, fabric)), LAMBDA declared :
  With(GenNodeBatches([st |-> declared.st, temp |-> declared.temp,
                       index |-> declared.index, pub |-> pub,
                       nbt |-> Target(batch, fabric, NODEBATCH), added |-> << >>],
                      batch, fabric, Target(batch, fabric, NODEBATCH)), LAMBDA gen :
    IF gen.temp = {}
      THEN [pub |-> NodeBatchesCreated(gen.st, gen.nbt), go |-> TRUE, exit |-> FALSE,
            calls |-> {}, trace |-> << >>, batch |-> WithAdded(batch, gen.added)]
    ELSE IF Fails(F, fabric, "node_credentials")
      THEN [pub |-> gen.pub, go |-> FALSE, exit |-> TRUE, calls |-> {},
            trace |-> << >>, batch |-> batch]
    ELSE IF ~obj_create_check(gen.st, fabric, gen.temp)
      THEN [pub |-> gen.pub, go |-> FALSE, exit |-> FALSE, calls |-> {},
            trace |-> << >>, batch |-> batch]
    ELSE With(obj_create(gen.st, fabric, gen.temp,
                         BatchObjCreateOutcome(F, fabric, gen.temp)), LAMBDA res :
           [pub |-> IF res.ok THEN NodeBatchesCreated(res.st, gen.nbt) ELSE res.st,
            go |-> res.ok, exit |-> FALSE, calls |-> res.calls,
            trace |-> Issued(<<res.calls>>), batch |-> WithAdded(batch, gen.added)])))

(* The planning loop of create_batch over the entries of one kind: the   *)
(* names the planner has put on the list of `action`.                      *)
Planned(s, batch, fabric, obj_kind, action) ==
  {n \in Range(Target(batch, fabric, obj_kind)) :
     /\ check_fabric(s, BatchObj(batch, obj_kind, n).fabric)
     /\ check_nodeobj(s, fabric, n, obj_kind)
     /\ LET curr_obj == get_fabric_object(s, obj_kind, n, fabric)
            entry == BatchObj(batch, obj_kind, n)
        IN action \in
             IF obj_kind = ORCHESTRATOR
               THEN set_action_list(get_object_state(curr_obj),
                                    get_object_status(curr_obj), entry.state,
                                    ORCHESTRATOR, NoConf, NoConf)
               ELSE set_action_list(get_object_state(curr_obj),
                                    get_object_status(curr_obj), entry.state,
                                    obj_kind, entry.config, curr_obj.config)}

(* curr_obj['config'] = batch_entity_config, for every planned entry. *)
StoreConfig(s, batch, fabric, obj_kind) ==
  LET objs == s.fabric[fabric][obj_kind]
      names == {n \in Range(Target(batch, fabric, obj_kind)) : n \in DOMAIN objs}
  IN [s EXCEPT !.fabric[fabric][obj_kind] =
        [n \in DOMAIN objs |->
           IF n \in names
             THEN [objs[n] EXCEPT !.config = BatchObj(batch, obj_kind, n).config]
             ELSE objs[n]]]

(* A step whose calls are put before those of the steps already made. *)
Step_prepending(acc, obj_list, res) ==
  IF acc.stop \/ obj_list = {} THEN acc
  ELSE [st |-> res.st, stop |-> ~res.ok, calls |-> acc.calls \cup res.calls,
        trace |-> Issued(<<res.calls>>) \o acc.trace]

(* One guarded step of the configure, start and stop chain of a kind:     *)
(* nothing runs once a step has failed or when the list is empty.         *)
Step(acc, obj_list, res) ==
  IF acc.stop \/ obj_list = {} THEN acc
  ELSE [st |-> res.st, stop |-> ~res.ok, calls |-> acc.calls \cup res.calls,
        trace |-> acc.trace \o Issued(<<res.calls>>)]

(* The Ansible zone of create_batch. *)
BatchAnsibleBlock(pub, batch, fabric, F) ==
  LET orch_config == Planned(pub, batch, fabric, ORCHESTRATOR, "config")
      act(kind, action) == Planned(pub, batch, fabric, kind, action)
      docker_fails(s0) == /\ HasController(s0, fabric, orch_config)
                          /\ Fails(F, fabric, "docker")
      oc == IF Fails(F, fabric, "swarm") THEN "swarm"
            ELSE IF Fails(F, fabric, "configure_orchestrator") THEN "playbook"
            ELSE "ok"
      Orch(s0) == IF orch_config = {} \/ docker_fails(s0)
                    THEN Res(s0, ~docker_fails(s0), {})
                  ELSE orchestrator_configure(s0, fabric, orch_config, oc)
      Workloads(orch, p3) ==
        With([p3 EXCEPT !.stop = FALSE], LAMBDA w0 :
        With(Step(w0, act(WORKLOAD, "config"),
                  workload_configure(w0.st, fabric, act(WORKLOAD, "config"),
                                     ~Fails(F, fabric, "configure_workload"))),
             LAMBDA w1 :
        With(Step(w1, act(WORKLOAD, "start"),
                  workload_start(w1.st, fabric, act(WORKLOAD, "start"),
                                 ~Fails(F, fabric, "start_workload"))),
             LAMBDA w2 :
        With(Step(w2, act(WORKLOAD, "stop"),
                  workload_stop(w2.st, fabric, act(WORKLOAD, "stop"),
                                ~Fails(F, fabric, "stop_workload"))),
             LAMBDA w3 :
          [pub |-> w3.st, ok |-> orch.ok /\ ~p3.stop /\ ~w3.stop,
           calls |-> w3.calls, trace |-> w3.trace]))))
      Processors(orch) ==
        With([st |-> orch.st, stop |-> FALSE, calls |-> orch.calls,
              trace |-> Issued(<<orch.calls>>)], LAMBDA p0 :
        With(Step(p0, act(PROCESSOR, "config"),
                  processor_configure(p0.st, fabric, act(PROCESSOR, "config"),
                                      ~Fails(F, fabric, "configure_processor"))),
             LAMBDA p1 :
        With(Step(p1, act(PROCESSOR, "start"),
                  processor_start(p1.st, fabric, act(PROCESSOR, "start"),
                                  ~Fails(F, fabric, "start_processor"))),
             LAMBDA p2 :
        With(Step(p2, act(PROCESSOR, "stop"),
                  processor_stop(p2.st, fabric, act(PROCESSOR, "stop"),
                                 ~Fails(F, fabric, "stop_processor"))),
             LAMBDA p3 : Workloads(orch, p3)))))
  IN With(StoreConfig(StoreConfig(pub, batch, fabric, PROCESSOR),
                      batch, fabric, WORKLOAD), LAMBDA s0 :
       With(Orch(s0), LAMBDA orch : Processors(orch)))

(* One round of the loop `for fabric in create_target`. *)
BatchFabric(pub, batch, fabric, F) ==
  LET Nodes(fb, vb) ==
        With(BatchNodeBlock(vb.pub, batch, fabric, F), LAMBDA nb :
          IF ~nb.go
            THEN [pub |-> nb.pub, ok |-> FALSE, exit |-> nb.exit,
                  calls |-> fb.calls \cup vb.calls \cup nb.calls,
                  trace |-> fb.trace \o vb.trace \o nb.trace]
          ELSE With(BatchAnsibleBlock(nb.pub, nb.batch, fabric, F), LAMBDA ab :
                 [pub |-> ab.pub, ok |-> ab.ok, exit |-> FALSE,
                  calls |-> fb.calls \cup vb.calls \cup nb.calls \cup ab.calls,
                  trace |-> fb.trace \o vb.trace \o nb.trace \o ab.trace]))
      Vpcs(fb) ==
        With(BatchVpcBlock(fb.pub, batch, fabric, F), LAMBDA vb :
          IF vb.exit
            THEN [pub |-> vb.pub, ok |-> FALSE, exit |-> TRUE,
                  calls |-> fb.calls \cup vb.calls,
                  trace |-> fb.trace \o vb.trace]
          ELSE Nodes(fb, vb))
  IN With(BatchFabricBlock(pub, batch, fabric, F), LAMBDA fb :
       IF ~fb.go
         THEN [pub |-> fb.pub, ok |-> FALSE, exit |-> FALSE, calls |-> fb.calls,
               trace |-> fb.trace]
       ELSE Vpcs(fb))

RECURSIVE RunBatch(_, _, _, _)
RunBatch(acc0, batch, fabrics, F) ==
  With(acc0, LAMBDA acc :
    IF fabrics = << >> \/ acc.exit THEN acc
    ELSE With(BatchFabric(acc.pub, batch, Head(fabrics), F), LAMBDA r :
           RunBatch([pub |-> r.pub, ok |-> acc.ok /\ r.ok, exit |-> r.exit,
                     calls |-> acc.calls \cup r.calls,
                     trace |-> acc.trace \o r.trace,
                     done |-> Append(acc.done, Head(fabrics))],
                    batch, Tail(fabrics), F)))

BatchPoints ==
  {"fabric_create", "fabric_configure", "vpc_credentials", "vpc", "node_credentials",
   "terraform", "node_orchestrator", "node_processor", "node_workload", "create_node",
   "docker", "swarm", "configure_orchestrator", "configure_processor",
   "start_processor", "stop_processor", "configure_workload", "start_workload",
   "stop_workload"}

MaxFailures == 1

(* The sets of at most k elements of P. *)
RECURSIVE UpTo(_, _)
UpTo(P, k) ==
  IF k = 0 THEN {{}}
  ELSE LET prev == UpTo(P, k - 1) IN prev \cup {G \cup {x} : G \in prev, x \in P}

(* The failures that one run of a batch can meet. *)
BatchOutcomes(batch) ==
  UpTo(Range(TargetFabrics(batch)) \X BatchPoints, MaxFailures)

(* create batch FILE [--dry-run]: dry_run is logged and not read again.   *)
(* The command leaves through sys.exit(res[1]) after the VPC block,       *)
(* through sys.exit(1) when the credentials of the nodes are missing, and *)
(* through sys.exit(1) at its end when a step of a fabric has failed.     *)
create_batch(filename, batch, dry_run) ==
  IF ~check_batch_version(batch)
    THEN FinishBatch("create batch", <<filename>>, dry_run, state, 1, {}, << >>, << >>)
  ELSE
  \E F \in BatchOutcomes(batch) :
    \E run \in {RunBatch([pub |-> state, ok |-> TRUE, exit |-> FALSE, calls |-> {},
                          trace |-> << >>, done |-> << >>],
                         batch, TargetFabrics(batch), F)} :
       FinishBatch("create batch", <<filename>>, dry_run, run.pub,
                   IF run.exit
                     THEN ExitOf(1, {c \in run.calls : c.what = "vpc"})
                   ELSE IF ~run.ok THEN 1 ELSE 0,
                   run.calls, run.done, run.trace)

-----------------------------------------------------------------------------
(* commands/delete.py: delete processor NAME *)

delete_processor(processor_name, dry_run) ==
  LET cmd == "delete processor"
      arg == <<processor_name>>
      fabric == get_current_fabric(state, current_fabric)
      Reject(calls) == Finish(cmd, arg, dry_run, state, 1, calls)
  IN IF fabric = NoFabric THEN Reject({})
     ELSE IF ~check_nodeobj(state, fabric, processor_name, PROCESSOR) THEN Reject({})
     ELSE
       LET obj_vpc == get_fabric_object(state, PROCESSOR, processor_name, fabric).vpc
           processors == VpcNodes(state, fabric, PROCESSOR, obj_vpc)
           workloads == VpcNodes(state, fabric, WORKLOAD, obj_vpc)
           target == {<<PROCESSOR, processor_name>>}
           temp_state == delete_fabric_object(state, PROCESSOR, processor_name, fabric)
       IN IF Cardinality(processors) < 2 /\ workloads # {} THEN Reject({})
          ELSE IF dry_run THEN Finish(cmd, arg, dry_run, state, 0, {})
          ELSE \E oc \in {"ok", "credentials", "terraform"} :
            IF oc = "credentials" THEN Reject({})
            ELSE IF oc = "terraform"
              THEN Reject({Call("terraform", "delete", fabric, target, FALSE)})
            ELSE Finish(cmd, arg, dry_run, temp_state, 0,
                        {Call("terraform", "delete", fabric, target, TRUE)})

-----------------------------------------------------------------------------
(* commands/delete.py: delete batch FILE *)

(* The keys of delete_target, in the order of their insertion. *)
DeleteTargetFabrics(batch) ==
  Dedup(FabricsOf(batch.fabric) \o FabricsOf(batch.vpc) \o FabricsOf(batch.orchestrator)
          \o FabricsOf(batch.processor) \o FabricsOf(batch.workload))

(* The nested nodes without the workloads. *)
FabricNodes_no_workloads(s, fabric) ==
  UNION {{<<k, n>> : n \in DOMAIN s.fabric[fabric][k]} : k \in NodeKinds \ {WORKLOAD}}

FabricNodes(s, fabric) ==
  UNION {{<<k, n>> : n \in DOMAIN s.fabric[fabric][k]} : k \in NodeKinds}

RECURSIVE DeleteObjs(_, _, _)
DeleteObjs(s, fabric, objs) ==
  IF objs = {} THEN s
  ELSE LET o == CHOOSE x \in objs : TRUE
       IN DeleteObjs(delete_fabric_object(s, o[1], o[2], fabric), fabric, objs \ {o})

TfDelete(fabric, objs, ok) == {Call("terraform", "delete", fabric, objs, ok)}

(* The fabric part of one round of delete_batch. *)
DeleteFabricBlock(pub, cur, batch, fabric, F) ==
  IF fabric \notin Range(Target(batch, fabric, FABRIC)) \/ ~check_fabric(pub, fabric)
    THEN [pub |-> pub, cur |-> cur, exit |-> FALSE, calls |-> {}]
  ELSE
    LET nodes == FabricNodes(pub, fabric)
        vpcs == VpcObjs(DOMAIN pub.fabric[fabric].vpc)
        temp_state_failed ==
          SetFabric(SetObjs(pub, fabric, nodes \cup vpcs, DELETING, FAILED),
                    fabric, DELETING, FAILED)
        temp_state_ok == delete_fabric(DeleteObjs(pub, fabric, nodes), fabric)
        cur1 == IF get_current_fabric(temp_state_failed, cur) = fabric
                  THEN NoFabric ELSE cur
        nodes_ok == ~Fails(F, fabric, "nested_nodes")
        vpcs_ok == ~Fails(F, fabric, "nested_vpcs")
        play_ok == ~Fails(F, fabric, "delete_fabric")
        c1 == IF nodes = {} THEN {} ELSE TfDelete(fabric, nodes, nodes_ok)
        c2 == IF vpcs = {} THEN {} ELSE TfDelete(fabric, vpcs, vpcs_ok)
        c3 == {Call("ansible", "delete-fabric.yml", fabric, FabricObj(fabric), play_ok)}
    IN IF nodes # {} /\ Fails(F, fabric, "credentials")
         THEN [pub |-> pub, cur |-> cur, exit |-> TRUE, calls |-> {}]
       ELSE IF nodes # {} /\ ~nodes_ok
         THEN [pub |-> temp_state_failed, cur |-> cur, exit |-> TRUE, calls |-> c1]
       ELSE IF vpcs # {} /\ Fails(F, fabric, "credentials")
         THEN [pub |-> pub, cur |-> cur1, exit |-> TRUE, calls |-> c1]
       ELSE IF vpcs # {} /\ ~vpcs_ok
         THEN [pub |-> temp_state_failed, cur |-> cur1, exit |-> TRUE,
               calls |-> c1 \cup c2]
       ELSE IF ~play_ok
         THEN [pub |-> pub, cur |-> cur1, exit |-> TRUE, calls |-> c1 \cup c2 \cup c3]
       ELSE [pub |-> temp_state_ok, cur |-> cur1, exit |-> FALSE,
             calls |-> c1 \cup c2 \cup c3]

(* The VPC part of one round of delete_batch. *)
DeleteVpcBlock(pub, batch, fabric, F) ==
  IF ~check_fabric(pub, fabric) THEN [pub |-> pub, exit |-> FALSE, calls |-> {}]
  ELSE
    LET target == {v \in Range(Target(batch, fabric, VPC)) : check_vpc(pub, fabric, v)}
        nested == {o \in FabricNodes(pub, fabric) :
                     pub.fabric[fabric][o[1]][o[2]].vpc \in target}
        temp_state_failed ==
          SetObjs(pub, fabric, VpcObjs(target) \cup nested, DELETING, FAILED)
        temp_state_ok == DeleteObjs(pub, fabric, nested \cup VpcObjs(target))
        nodes_ok == ~Fails(F, fabric, "vpc_nodes")
        vpcs_ok == ~Fails(F, fabric, "vpcs")
        c1 == IF nested = {} THEN {} ELSE TfDelete(fabric, nested, nodes_ok)
        c2 == IF target = {} THEN {} ELSE TfDelete(fabric, VpcObjs(target), vpcs_ok)
    IN IF nested # {} /\ Fails(F, fabric, "credentials")
         THEN [pub |-> pub, exit |-> TRUE, calls |-> {}]
       ELSE IF nested # {} /\ ~nodes_ok
         THEN [pub |-> temp_state_failed, exit |-> TRUE, calls |-> c1]
       ELSE IF target # {} /\ Fails(F, fabric, "credentials")
         THEN [pub |-> pub, exit |-> TRUE, calls |-> c1]
       ELSE IF target # {} /\ ~vpcs_ok
         THEN [pub |-> temp_state_failed, exit |-> TRUE, calls |-> c1 \cup c2]
       ELSE [pub |-> temp_state_ok, exit |-> FALSE, calls |-> c1 \cup c2]

(* temp_state_ok.get_fabric_object(kind, fabric): the call passes the   *)
(* fabric as the object's name, so it looks among the objects of the      *)
(* current fabric for one that bears the fabric's name, and finds none.   *)
ObjectNamedAsFabric == EmptyDict

(* The node part of one round of delete_batch. *)
DeleteNodeBlock(pub, cur, batch, fabric, F) ==
  IF ~check_fabric(pub, fabric) THEN [pub |-> pub, exit |-> FALSE, calls |-> {}]
  ELSE
    LET target == {o \in FabricNodes(pub, fabric) :
                     o[2] \in Range(Target(batch, fabric, o[1]))}
        temp_state_failed == SetObjs(pub, fabric, target, DELETING, FAILED)
        temp_state_ok == DeleteObjs(pub, fabric, target)
        procs == NamesOf(target, PROCESSOR)
        processors == DOMAIN ObjectNamedAsFabric
        workloads == DOMAIN ObjectNamedAsFabric
        ok == ~Fails(F, fabric, "nodes")
        c == TfDelete(fabric, target, ok)
    IN IF procs # {} /\ get_current_fabric(temp_state_ok, cur) = NoFabric
         THEN [pub |-> pub, exit |-> TRUE, calls |-> {}]
       ELSE IF procs # {} /\ processors = {} /\ workloads # {}
         THEN [pub |-> pub, exit |-> TRUE, calls |-> {}]
       ELSE IF target = {} THEN [pub |-> temp_state_ok, exit |-> FALSE, calls |-> {}]
       ELSE IF Fails(F, fabric, "credentials")
         THEN [pub |-> pub, exit |-> TRUE, calls |-> {}]
       ELSE IF ~ok THEN [pub |-> temp_state_failed, exit |-> TRUE, calls |-> c]
       ELSE [pub |-> temp_state_ok, exit |-> FALSE, calls |-> c]

(* One round of the loop `for fabric in delete_target`. *)
DeleteFabricRound(pub, cur, batch, fabric, F) ==
  With(DeleteFabricBlock(pub, cur, batch, fabric, F), LAMBDA fb :
    IF fb.exit THEN fb
    ELSE With(DeleteVpcBlock(fb.pub, batch, fabric, F), LAMBDA vb :
      IF vb.exit
        THEN [pub |-> vb.pub, cur |-> fb.cur, exit |-> TRUE,
              calls |-> fb.calls \cup vb.calls]
      ELSE With(DeleteNodeBlock(vb.pub, fb.cur, batch, fabric, F), LAMBDA nb :
        [pub |-> nb.pub, cur |-> fb.cur, exit |-> nb.exit,
         calls |-> fb.calls \cup vb.calls \cup nb.calls])))

RECURSIVE RunDelete(_, _, _, _)
RunDelete(acc, batch, fabrics, F) ==
  IF fabrics = << >> \/ acc.exit THEN acc
  ELSE LET r == DeleteFabricRound(acc.pub, acc.cur, batch, Head(fabrics), F)
       IN RunDelete([pub |-> r.pub, cur |-> r.cur, exit |-> r.exit,
                     calls |-> acc.calls \cup r.calls,
                     done |-> Append(acc.done, Head(fabrics))],
                    batch, Tail(fabrics), F)

DeletePoints ==
  {"credentials", "nested_nodes", "nested_vpcs", "delete_fabric", "vpc_nodes", "vpcs",
   "nodes"}

DeleteOutcomesOf(batch) ==
  UpTo(Range(DeleteTargetFabrics(batch)) \X DeletePoints, MaxFailures)

(* delete batch FILE [--dry-run] [--yes]: dry_run is logged and not read  *)
(* again; without --yes the user confirms or declines.  The apiVersion of *)
(* the file is stored by BatchSpec and not read.                           *)
delete_batch(filename, batch, dry_run) ==
  \E confirmed \in BOOLEAN :
    IF ~confirmed
      THEN FinishBatch("delete batch", <<filename>>, dry_run, state, 0, {}, << >>, << >>)
    ELSE \E F \in DeleteOutcomesOf(batch) :
      \E run \in {RunDelete([pub |-> state, cur |-> current_fabric, exit |-> FALSE,
                             calls |-> {}, done |-> << >>],
                            batch, DeleteTargetFabrics(batch), F)} :
        /\ state' = run.pub
        /\ current_fabric' = run.cur
        /\ last' = [cmd |-> "delete batch", arg |-> <<filename>>, dry |-> dry_run,
                    exit |-> ExitOf(IF run.exit THEN 1 ELSE 0, run.calls),
                    calls |-> run.calls,
                    fabrics |-> run.done, trace |-> << >>]
        /\ UNCHANGED <<pl, probe, pidfile, proc>>

-----------------------------------------------------------------------------
(* commands/delete.py: delete fabric NAME and delete vpc NAME. *)

(* The names of the NodeBatch entries in the order of the state file. *)
BatchOrder == <<"nb1", "nb10">>

(* State.nodebatch_delete: the entries that hold a node of the fabric, or *)
(* of the VPC when one is given, leave the state.  The lists of matching  *)
(* workloads and processors are set before the loop and each is computed  *)
(* again only for an entry of its kind.                                    *)
RECURSIVE NodeBatchScan(_, _, _, _, _)
NodeBatchScan(s, names, fabric, vpc, acc) ==
  IF names = << >> THEN acc.found
  ELSE LET entry == s.batch[Head(names)]
           matching == {n \in DOMAIN entry.nodes :
                          IF vpc # NoVpc THEN entry.nodes[n].vpc = vpc
                          ELSE entry.nodes[n].fabric = fabric}
           workloads == IF entry.kind = WORKLOAD THEN matching ELSE acc.workloads
           processors == IF entry.kind = PROCESSOR THEN matching ELSE acc.processors
       IN NodeBatchScan(s, Tail(names), fabric, vpc,
                        [workloads |-> workloads, processors |-> processors,
                         found |-> IF workloads \cup processors # {}
                                     THEN acc.found \cup {Head(names)}
                                     ELSE acc.found])

RECURSIVE DeleteNodeBatches(_, _)
DeleteNodeBatches(s, names) ==
  IF names = {} THEN s
  ELSE LET b == CHOOSE x \in names : TRUE
       IN DeleteNodeBatches(delete_nodebatch(s, b), names \ {b})

nodebatch_delete(s, fabric, vpc) ==
  IF vpc = NoVpc /\ fabric = NoFabric THEN s
  ELSE DeleteNodeBatches(
         s, NodeBatchScan(s, SelectSeq(BatchOrder, LAMBDA b : b \in DOMAIN s.batch),
                          fabric, vpc,
                          [workloads |-> {}, processors |-> {}, found |-> {}]))

(* delete fabric NAME, with no check of what the fabric holds. *)
cmd_delete_fabric_unchecked(fabric_name) ==
  LET cmd == "delete fabric"
      arg == <<fabric_name>>
  IN IF ~check_fabric(state, fabric_name) THEN Finish(cmd, arg, FALSE, state, 1, {})
     ELSE \E ok \in BOOLEAN :
       LET c == {Call("ansible", "delete-fabric.yml", fabric_name,
                      FabricObj(fabric_name), ok)}
       IN IF ~ok THEN Finish(cmd, arg, FALSE, state, 1, c)
          ELSE /\ state' = nodebatch_delete(delete_fabric(state, fabric_name),
                                            fabric_name, NoVpc)
               /\ current_fabric' =
                    IF get_current_fabric(state, current_fabric) = fabric_name
                      THEN NoFabric ELSE current_fabric
               /\ last' = [cmd |-> cmd, arg |-> arg, dry |-> FALSE, exit |-> 0,
                           calls |-> c, fabrics |-> << >>, trace |-> << >>]
               /\ UNCHANGED <<pl, probe, pidfile, proc>>

(* delete fabric NAME (the command; State.delete_fabric is delete_fabric). *)
cmd_delete_fabric(fabric_name) ==
  LET cmd == "delete fabric"
      arg == <<fabric_name>>
  IN IF ~check_fabric(state, fabric_name) THEN Finish(cmd, arg, FALSE, state, 1, {})
     ELSE IF DOMAIN get_fabric_objects(state, VPC, fabric_name) # {}
       THEN Finish(cmd, arg, FALSE, state, 1, {})
     ELSE IF FabricNodes(state, fabric_name) # {}
       THEN Finish(cmd, arg, FALSE, state, 1, {})
     ELSE \E ok \in BOOLEAN :
       LET c == {Call("ansible", "delete-fabric.yml", fabric_name,
                      FabricObj(fabric_name), ok)}
       IN IF ~ok THEN Finish(cmd, arg, FALSE, state, 1, c)
          ELSE /\ state' = nodebatch_delete(delete_fabric(state, fabric_name),
                                            fabric_name, NoVpc)
               /\ current_fabric' =
                    IF get_current_fabric(state, current_fabric) = fabric_name
                      THEN NoFabric ELSE current_fabric
               /\ last' = [cmd |-> cmd, arg |-> arg, dry |-> FALSE, exit |-> 0,
                           calls |-> c, fabrics |-> << >>, trace |-> << >>]
               /\ UNCHANGED <<pl, probe, pidfile, proc>>

(* delete vpc NAME [--dry-run] *)
delete_vpc(obj_name, dry_run) ==
  LET cmd == "delete vpc"
      arg == <<obj_name>>
      fabric == get_current_fabric(state, current_fabric)
      Reject(calls) == Finish(cmd, arg, dry_run, state, 1, calls)
  IN IF fabric = NoFabric THEN Reject({})
     ELSE IF ~check_vpc(state, fabric, obj_name) THEN Reject({})
     ELSE
       LET node_list == UNION {VpcNodes(state, fabric, k, obj_name) : k \in NodeKinds}
           target == VpcObjs({obj_name})
           temp_state == delete_fabric_object(state, VPC, obj_name, fabric)
       IN IF node_list # {} THEN Reject({})
          ELSE IF dry_run THEN Finish(cmd, arg, dry_run, state, 0, {})
          ELSE \E oc \in {"ok", "credentials", "terraform"} :
            IF oc = "credentials" THEN Reject({})
            ELSE IF oc = "terraform" THEN Reject(TfDelete(fabric, target, FALSE))
            ELSE Finish(cmd, arg, dry_run, nodebatch_delete(temp_state, NoFabric, obj_name),
                        0, TfDelete(fabric, target, TRUE))

-----------------------------------------------------------------------------
Init == CmdInit /\ pl = Clean /\ probe = Clean

(* The batch files of create batch: two controllers of one fabric; the   *)
(* second of them alone; a controller and a telemetry node that both ask  *)
(* for the manager role; two fabrics with a VPC each; a processor and a   *)
(* workload to be started; a processor under a name of its author's       *)
(* choice; two processors, the one named 02 ahead of the one named 01; a  *)
(* workload with no processor in its VPC, and a controller.                *)
V1 == vpc_name("aws", 1, "f1")

V2 == vpc_name("aws", 1, "f2")

P1 == node_name(V1, "p", 1, "f1")

W1 == node_name(V1, "w", 1, "f1")

X1 == node_name(V1, "c", 1, "f1")

X2 == node_name(V1, "c", 2, "f1")

P2 == node_name(V1, "p", 2, "f1")

OrchBatch(orchestrators) ==
  [apiVersion |-> api_version,
   fabric |-> <<BFabric("f1")>>, vpc |-> <<BVpc(V1, "aws")>>, nodebatch |-> << >>,
   processor |-> << >>, workload |-> << >>, orchestrator |-> orchestrators]

Batches ==
  [two_controllers |->
     OrchBatch(<<BOrchestrator(X1, V1, "controller", "manager", CONFIGURED),
                 BOrchestrator(X2, V1, "controller", "manager", CONFIGURED)>>),
   second_controller |->
     OrchBatch(<<BOrchestrator(X2, V1, "controller", "manager", CONFIGURED)>>),
   two_managers |->
     OrchBatch(<<BOrchestrator(X1, V1, "controller", "manager", CONFIGURED),
                 BOrchestrator(X2, V1, "telemetry", "manager", CONFIGURED)>>),
   two_fabrics |->
     [apiVersion |-> api_version,
      fabric |-> <<BFabric("f1"), BFabric("f2")>>,
      vpc |-> <<BVpc(V1, "aws"), BVpc(V2, "aws")>>, nodebatch |-> << >>,
      processor |-> << >>, workload |-> << >>, orchestrator |-> << >>],
   nodes |->
     [apiVersion |-> api_version,
      fabric |-> <<BFabric("f1")>>, vpc |-> <<BVpc(V1, "aws")>>, nodebatch |-> << >>,
      processor |-> <<BNode(P1, V1, STARTED, "confA")>>,
      workload |-> <<BNode(W1, V1, STARTED, "confA")>>, orchestrator |-> << >>],
   named |->
     [apiVersion |-> api_version,
      fabric |-> <<BFabric("f1")>>, vpc |-> <<BVpc(V1, "aws")>>, nodebatch |-> << >>,
      processor |-> <<BNode(P2, V1, CREATED, "confA")>>, workload |-> << >>,
      orchestrator |-> << >>],
   swapped |->
     [apiVersion |-> api_version,
      fabric |-> <<BFabric("f1")>>, vpc |-> <<BVpc(V1, "aws")>>, nodebatch |-> << >>,
      processor |-> <<BNode(P2, V1, CREATED, "confA"), BNode(P1, V1, CREATED, "confA")>>,
      workload |-> << >>, orchestrator |-> << >>],
   orphan |->
     [apiVersion |-> api_version,
      fabric |-> <<BFabric("f1")>>, vpc |-> <<BVpc(V1, "aws")>>, nodebatch |-> << >>,
      processor |-> << >>, workload |-> <<BNode(W1, V1, STARTED, "confA")>>,
      orchestrator |-> <<BOrchestrator(X1, V1, "controller", "manager", CONFIGURED)>>]]

DeleteBatches ==
  [one_processor |->
     [apiVersion |-> api_version,
      fabric |-> << >>, vpc |-> << >>, orchestrator |-> << >>, workload |-> << >>,
      processor |-> <<BNode(P1, V1, STARTED, "confA")>>],
   fabric_and_vpc |->
     [apiVersion |-> api_version,
      fabric |-> <<BFabric("f1")>>, vpc |-> <<BVpc(V1, "aws")>>,
      orchestrator |-> << >>, workload |-> << >>, processor |-> << >>]]

FabricCmds ==
  \/ \E f \in FabricNames : set_fabric(f)
  \/ \E f \in FabricNames : create_fabric(f)
  \/ \E f \in FabricNames : config_fabric(f)
  \/ \E c \in Clouds, dry_run \in BOOLEAN : create_vpc(c, dry_run)

OrchestratorCmds ==
  \/ \E v \in AllVpcNames, t \in OrchestratorTypes : create_orchestrator(v, t)
  \/ \E n \in AllOrchNames \cup {NoName}, all_nodes, dry_run \in BOOLEAN :
        config_orchestrator(n, all_nodes, dry_run)
  \/ \E n \in AllOrchNames \cup {NoName}, all_nodes, dry_run \in BOOLEAN :
        update_orchestrator(n, all_nodes, dry_run)
  \/ \E n \in AllOrchNames, dry_run \in BOOLEAN : delete_orchestrator(n, dry_run)

AllProcessorNames ==
  {node_name(v, "p", n, v[3]) : v \in AllVpcNames, n \in 1..MaxNodeIndex}

NodeCmds ==
  \/ \E v \in AllVpcNames : create_processor(v)
  \/ \E v \in AllVpcNames : create_workload(v)
  \/ \E n \in AllProcessorNames, dry_run \in BOOLEAN : delete_processor(n, dry_run)

CreateBatchCmds(names) ==
  \E b \in names, dry_run \in BOOLEAN : create_batch(b, Batches[b], dry_run)

DeleteBatchCmds ==
  \E b \in DOMAIN DeleteBatches, dry_run \in BOOLEAN :
    delete_batch(b, DeleteBatches[b], dry_run)

Next ==
  \/ FabricCmds
  \/ OrchestratorCmds
  \/ NodeCmds
  \/ CreateBatchCmds(DOMAIN Batches)
  \/ DeleteBatchCmds

Spec == Init /\ [][Next]_vars

(* The commands taken a group at a time: each of the specifications below *)
(* allows a part of the steps of Spec.                                     *)

(* The fabric and orchestrator commands. *)
NextOrch == FabricCmds \/ OrchestratorCmds

SpecOrch == Init /\ [][NextOrch]_vars

(* The fabric, processor and workload commands and delete batch. *)
NextNodes == FabricCmds \/ NodeCmds \/ DeleteBatchCmds

SpecNodes == Init /\ [][NextNodes]_vars

(* The fabric commands, create processor and workload, and the configure, *)
(* start and stop commands of processors and workloads.                    *)
AllWorkloadNames ==
  {node_name(v, "w", n, v[3]) : v \in AllVpcNames, n \in 1..MaxNodeIndex}

FqdnValues == {"confA", NoConf}

LifeCmds(obj_kind, names) ==
  \/ \E n \in names \cup {NoName}, all_nodes, dry_run \in BOOLEAN :
        start_node(obj_kind, n, all_nodes, dry_run)
  \/ \E n \in names \cup {NoName}, all_nodes, dry_run \in BOOLEAN :
        stop_node(obj_kind, n, all_nodes, dry_run)
  \/ \E n \in names \cup {NoName}, all_nodes, dry_run \in BOOLEAN, fqdn \in FqdnValues :
        config_node(obj_kind, n, all_nodes, fqdn, dry_run)

CreateNodeCmds ==
  \/ \E v \in AllVpcNames : create_processor(v)
  \/ \E v \in AllVpcNames : create_workload(v)

NextLife ==
  \/ FabricCmds
  \/ \E v \in AllVpcNames : create_processor(v)
  \/ LifeCmds(PROCESSOR, AllProcessorNames)

SpecLife == Init /\ [][NextLife]_vars

(* create batch with the batches of orchestrators; the command creates    *)
(* and configures the fabric itself.                                       *)
OneFabricBatches == {"two_controllers", "second_controller", "two_managers"}

NextBatch == CreateBatchCmds(OneFabricBatches)

SpecBatch == Init /\ [][NextBatch]_vars

(* create batch with the batch of two fabrics and the batch of a          *)
(* processor and a workload.                                               *)
NodeBatches == {"two_fabrics", "nodes"}

NextTwoFabrics == CreateBatchCmds(NodeBatches)

SpecTwoFabrics == Init /\ [][NextTwoFabrics]_vars

(* create batch with batches that hold a NodeBatch: one processor to be   *)
(* started, and ten of them.  A run leaves the state alone once the       *)
(* fabric holds the most processors allowed.                               *)
NodeBatchFiles ==
  [nodebatch |->
     [apiVersion |-> api_version,
      fabric |-> <<BFabric("f1")>>, vpc |-> <<BVpc(V1, "aws")>>,
      nodebatch |-> <<BNodeBatch("nb1", "f1", V1, PROCESSOR, 1, STARTED, "confA")>>,
      processor |-> << >>, workload |-> << >>, orchestrator |-> << >>],
   ten |->
     [apiVersion |-> api_version,
      fabric |-> <<BFabric("f1")>>, vpc |-> <<BVpc(V1, "aws")>>,
      nodebatch |-> <<BNodeBatch("nb10", "f1", V1, PROCESSOR, 10, STARTED, "confA")>>,
      processor |-> << >>, workload |-> << >>, orchestrator |-> << >>]]

MaxBatchNodes == 3

NodeBatchCmds(names, max) ==
  \E b \in names, dry_run \in BOOLEAN :
    /\ create_batch(b, NodeBatchFiles[b], dry_run)
    /\ \A f \in DOMAIN state'.fabric :
         Cardinality(DOMAIN state'.fabric[f].processor) <= max

NextNodeBatch == NodeBatchCmds({"nodebatch"}, MaxBatchNodes)

SpecNodeBatch == Init /\ [][NextNodeBatch]_vars

(* create batch with the batch of ten processors, and set fabric. *)
MaxTenNodes == 10

NextTen ==
  \/ NodeBatchCmds({"ten"}, MaxTenNodes)
  \/ \E f \in FabricNames : set_fabric(f)

SpecTen == Init /\ [][NextTen]_vars

(* create batch with the batches of the named processors, set fabric and  *)
(* create processor.                                                       *)
NextNamed ==
  \/ CreateBatchCmds({"named", "swapped"})
  \/ \E f \in FabricNames : set_fabric(f)
  \/ \E v \in AllVpcNames : create_processor(v)

SpecNamed == Init /\ [][NextNamed]_vars

(* create batch with the batch of the workload that has no processor, set *)
(* fabric and create orchestrator.                                         *)
NextOrphan ==
  \/ CreateBatchCmds({"orphan"})
  \/ \E f \in FabricNames : set_fabric(f)
  \/ \E v \in AllVpcNames, t \in OrchestratorTypes : create_orchestrator(v, t)

SpecOrphan == Init /\ [][NextOrphan]_vars

(* create batch with the batch of a processor and a workload, set fabric, *)
(* delete batch, and the configure, start and stop commands of workloads.  *)
NextProxy ==
  \/ CreateBatchCmds({"nodes"})
  \/ \E f \in FabricNames : set_fabric(f)
  \/ DeleteBatchCmds
  \/ LifeCmds(WORKLOAD, {W1})

SpecProxy == Init /\ [][NextProxy]_vars

-----------------------------------------------------------------------------
(* session/credentials.py: where a fabric's cloud credentials come from. *)
(* A credentials file is not configured (NoFile), configured but not     *)
(* found (MissingFile), or a document that gives each cloud's section as *)
(* absent, incomplete or complete.  The environment gives each cloud's   *)
(* variables as all unset, some set or all set.                          *)

CredClouds == {"aws", "azr"}

\* A file that is not a document is written as a document with no cloud.
NoFile == [cloud \in CredClouds |-> "unset"]

MissingFile == [cloud \in CredClouds |-> "missing"]

SectionValues == {"absent", "partial", "full"}

CredFiles == {NoFile, MissingFile} \cup [CredClouds -> SectionValues]

EnvValues == {"none", "partial", "full"}

CloudLists == {<<"aws">>, <<"aws", "azr">>}

\* Credentials.parse_file: False only when the file is not found.
parse_file(file) == file # MissingFile

\* Credentials.check_aws / check_azr on a parsed file: the section is
\* present and every parameter of the cloud has a value.
check_cloud(file, cloud) == file[cloud] = "full"

\* Credentials.get_env_aws / get_env_azr on global_credentials, whose
\* dictionary is the parsed global file when one is configured and the
\* constructor's dictionary of empty sections otherwise.  Every variable
\* that is set is stored into the cloud's section (a KeyError when the
\* parsed file has no such section); False when any variable is unset.
get_env(global_file, env, cloud) ==
  IF env[cloud] # "none" /\ global_file # NoFile
       /\ global_file[cloud] = "absent" THEN "raise"
  ELSE IF env[cloud] = "full" THEN "ok"
  ELSE "fail"

\* The loop of Credentials.get over the required clouds.
RECURSIVE get_clouds(_, _, _, _, _)
get_clouds(fabric_file, global_file, env, clouds, from) ==
  IF clouds = << >> THEN [out |-> "ok", from |-> from]
  ELSE LET cloud == Head(clouds)
           next(src) == get_clouds(fabric_file, global_file, env,
                                   Tail(clouds), Put(from, cloud, src))
       IN IF fabric_file # NoFile /\ check_cloud(fabric_file, cloud)
            THEN next("fabric")
          ELSE IF global_file # NoFile /\ check_cloud(global_file, cloud)
            THEN next("global")
          ELSE IF get_env(global_file, env, cloud) = "ok" THEN next("env")
          ELSE [out |-> get_env(global_file, env, cloud), from |-> from]

\* Credentials.get.
Credentials_get(fabric_file, global_file, env, clouds) ==
  IF global_file # NoFile /\ ~parse_file(global_file)
    THEN [out |-> "fail", from |-> EmptyDict]
  ELSE IF fabric_file # NoFile /\ ~parse_file(fabric_file)
    THEN [out |-> "fail", from |-> EmptyDict]
  ELSE get_clouds(fabric_file, global_file, env, clouds, EmptyDict)

CredInputs ==
  [fabric_file : CredFiles, global_file : CredFiles,
   env : [CredClouds -> EnvValues], clouds : CloudLists,
   done : {FALSE}, res : {Clean}]

CredsInit == CmdInit /\ pl = Clean /\ probe \in CredInputs

GetCredentials ==
  /\ ~probe.done
  /\ probe' = [probe EXCEPT
                 !.done = TRUE,
                 !.res = Credentials_get(probe.fabric_file, probe.global_file,
                                         probe.env, probe.clouds)]
  /\ UNCHANGED <<pl, pidfile, proc, state, current_fabric, last>>

NextCreds == GetCredentials

SpecCreds == CredsInit /\ [][NextCreds]_vars

-----------------------------------------------------------------------------
(* State.set_object_state_status taken on its own: the object holds any   *)
(* state and status or none, and the values passed are members of the     *)
(* enumerations or a value no enumeration has.                             *)

Bogus == "bogus"

SetStateInputs ==
  [obj : [state : ObjectState \cup {Clean}, status : ObjectStatus \cup {Clean}],
   st : ObjectState \cup {Bogus}, status : ObjectStatus \cup {Bogus},
   done : {FALSE}, res : {Clean}]

SetStateInit == CmdInit /\ pl = Clean /\ probe \in SetStateInputs

SetStateStatus ==
  /\ ~probe.done
  /\ probe' = [probe EXCEPT
                 !.done = TRUE,
                 !.res = set_object_state_status(probe.obj, probe.st, probe.status)]
  /\ UNCHANGED <<pl, pidfile, proc, state, current_fabric, last>>

NextSetState == SetStateStatus

SpecSetState == SetStateInit /\ [][NextSetState]_vars

-----------------------------------------------------------------------------
(* The fabric commands, create processor and workload, delete processor,  *)
(* delete fabric and delete vpc.                                           *)
DeleteCmds ==
  \/ \E f \in FabricNames : cmd_delete_fabric(f)
  \/ \E v \in AllVpcNames, dry_run \in BOOLEAN : delete_vpc(v, dry_run)

NextDelete == FabricCmds \/ NodeCmds \/ DeleteCmds

SpecDelete == Init /\ [][NextDelete]_vars

-----------------------------------------------------------------------------
(* Batch files of another API version: the batch of a processor and a     *)
(* workload for create batch, the batch of the fabric and its VPC for     *)
(* delete batch.  The commands are create batch with the current and the  *)
(* other version, delete batch with the other version, and set fabric.    *)
OtherVersion == "fabric.bayware.io/v1"

OtherVersionFiles ==
  [other_nodes |-> [Batches.nodes EXCEPT !.apiVersion = OtherVersion],
   other_fabric_and_vpc |->
     [DeleteBatches.fabric_and_vpc EXCEPT !.apiVersion = OtherVersion]]

NextVersion ==
  \/ CreateBatchCmds({"nodes"})
  \/ \E dry_run \in BOOLEAN :
       create_batch("other_nodes", OtherVersionFiles.other_nodes, dry_run)
  \/ \E dry_run \in BOOLEAN :
       delete_batch("other_fabric_and_vpc", OtherVersionFiles.other_fabric_and_vpc,
                    dry_run)
  \/ \E f \in FabricNames : set_fabric(f)

SpecVersion == Init /\ [][NextVersion]_vars

-----------------------------------------------------------------------------
(* The processes of one user and the lock. *)
NextLock ==
  \E p \in Procs : Invoke(p) \/ Lock(p) \/ Load(p) \/ Dump(p) \/ Leave(p)

SpecLock == Init /\ [][NextLock]_vars

-----------------------------------------------------------------------------
(* The fabric commands, create processor, delete batch with the batch of  *)
(* one processor, and the start, stop, configure and update commands of    *)
(* processors.                                                             *)
TargetCmds ==
  \/ LifeCmds(PROCESSOR, {P1})
  \/ \E n \in {P1, NoName}, all_nodes, dry_run \in BOOLEAN :
        update_processor(n, all_nodes, dry_run)

NextTargets ==
  \/ FabricCmds
  \/ \E v \in AllVpcNames : create_processor(v)
  \/ \E dry_run \in BOOLEAN :
        delete_batch("one_processor", DeleteBatches.one_processor, dry_run)
  \/ TargetCmds

SpecTargets == Init /\ [][NextTargets]_vars

-----------------------------------------------------------------------------
(* The state file.  session/state.py: State.init, State.check, State.dump; *)
(* utils/common.py: dump_dict_to_file; the commit of a working copy as     *)
(* every command makes it (commands/start.py l.69-77).                      *)
(*                                                                         *)
(* The file is a sequence of lines, one per leaf of the document: the keys *)
(* that lead to the leaf and its value.  The dict in memory is a function  *)
(* from the paths of its leaves to their values, a dict with no key being  *)
(* the leaf EmptyMap.                                                      *)

EmptyMap == "{}"

(* The keys of the documents, in the order in which yaml.dump writes the   *)
(* keys of a mapping (sort_keys is left at its default).                   *)
KeyOrder ==
  <<"apiVersion", "batch", "f1", "fabric", "ip", "marketplace", "orchestrator",
    "p1", "processor", "properties", "state", "workload">>

KeyRank(k) == CHOOSE i \in DOMAIN KeyOrder : KeyOrder[i] = k

RECURSIVE PathLess(_, _)
PathLess(p, q) ==
  IF p = << >> THEN q # << >>
  ELSE IF q = << >> THEN FALSE
  ELSE IF Head(p) = Head(q) THEN PathLess(Tail(p), Tail(q))
  ELSE KeyRank(Head(p)) < KeyRank(Head(q))

IsPrefix(p, q) == Len(p) <= Len(q) /\ SubSeq(q, 1, Len(p)) = p

(* yaml.dump(data, default_flow_style=False) with every leaf written       *)
(* under its mapping's keys, which are sorted at every level, and a        *)
(* mapping with no key written as it is.                                   *)
yaml_dump_no_empty(data) ==
  LET paths == {p \in DOMAIN data : data[p] # EmptyMap}
      rank(p) == Cardinality({q \in paths : PathLess(q, p)}) + 1
  IN [i \in 1..Cardinality(paths) |->
        LET p == CHOOSE q \in paths : rank(q) = i
        IN [path |-> p, value |-> data[p]]]

yaml_dump(data) ==
  LET paths == DOMAIN data
      rank(p) == Cardinality({q \in paths : PathLess(q, p)}) + 1
  IN [i \in 1..Cardinality(paths) |->
        LET p == CHOOSE q \in paths : rank(q) = i
        IN [path |-> p, value |-> data[p]]]

(* yaml.safe_load of the lines of a file, in whatever order its keys are.  *)
safe_load(text) ==
  LET paths == {text[i].path : i \in DOMAIN text}
  IN [p \in paths |-> text[CHOOSE i \in DOMAIN text : text[i].path = p].value]

(* data[k1][k2]... = v: a mapping that gets its first key is no longer the *)
(* leaf EmptyMap.                                                          *)
SetLeaf(data, path, v) ==
  LET kept == {p \in DOMAIN data : ~(IsPrefix(p, path) /\ data[p] = EmptyMap)}
  IN [p \in kept \cup {path} |-> IF p = path THEN v ELSE data[p]]

HasKey(data, path) == \E p \in DOMAIN data : IsPrefix(path, p)

(* Config.init_attr_marketplace: the marketplace attribute of the          *)
(* configuration, False unless bwctl init set it.                          *)
ConfigMarketplace == "false"

NodePaths(data) ==
  {SubSeq(p, 1, 4) : p \in {q \in DOMAIN data :
      Len(q) >= 4 /\ q[1] = "fabric" /\ q[3] \in NodeKinds}}

RECURSIVE AddMarketplace(_, _)
AddMarketplace(data, nodes) ==
  IF nodes = {} THEN data
  ELSE LET n == CHOOSE x \in nodes : TRUE
           key == n \o <<"properties", "marketplace">>
       IN AddMarketplace(IF HasKey(data, key) THEN data
                         ELSE SetLeaf(data, key, ConfigMarketplace),
                         nodes \ {n})

(* State.check: the keys 'batch' and 'fabric' and every node's             *)
(* properties.marketplace are added to a loaded state that lacks them.     *)
State_check(data) ==
  LET with_batch == IF HasKey(data, <<"batch">>) THEN data
                    ELSE SetLeaf(data, <<"batch">>, EmptyMap)
      with_fabric == IF HasKey(with_batch, <<"fabric">>) THEN with_batch
                     ELSE SetLeaf(with_batch, <<"fabric">>, EmptyMap)
  IN AddMarketplace(with_fabric, NodePaths(with_fabric))

(* copy.deepcopy of a dict: a new dict of the same keys and values. *)
deepcopy(data) == [p \in DOMAIN data |-> data[p]]

(* The state files: with and without the key 'batch', with no key         *)
(* 'fabric', with no fabric, or with the fabric f1 and the processor p1,   *)
(* whose properties are absent, empty, without marketplace or with it;     *)
(* the keys of a file are in the order of yaml.dump or in the reverse one. *)
Line(path, v) == [path |-> path, value |-> v]

P1Path == <<"fabric", "f1", "processor", "p1">>

FabricLines(props, st) ==
  <<Line(<<"fabric", "f1", "orchestrator">>, EmptyMap)>>
  \o (IF props = "ip" THEN <<Line(P1Path \o <<"properties", "ip">>, "10.0.0.1")>>
      ELSE IF props = "marketplace"
        THEN <<Line(P1Path \o <<"properties", "marketplace">>, "true")>>
      ELSE IF props = "empty" THEN <<Line(P1Path \o <<"properties">>, EmptyMap)>>
      ELSE << >>)
  \o <<Line(P1Path \o <<"state">>, st),
       Line(<<"fabric", "f1", "state">>, CONFIGURED),
       Line(<<"fabric", "f1", "workload">>, EmptyMap)>>

Reverse(seq) == [i \in 1..Len(seq) |-> seq[Len(seq) + 1 - i]]

StateFiles ==
  LET head == {<<Line(<<"apiVersion">>, api_version)>>,
               <<Line(<<"apiVersion">>, api_version), Line(<<"batch">>, EmptyMap)>>}
      body == {<< >>, <<Line(<<"fabric">>, EmptyMap)>>}
              \cup {FabricLines(props, st) :
                      props \in {"absent", "empty", "ip", "marketplace"},
                      st \in {CREATED, STARTED}}
      sorted == {h \o b : h \in head, b \in body}
  IN sorted \cup {Reverse(t) : t \in sorted}

NoData == << >>

RoundTripInit ==
  /\ CmdInit
  /\ pl = Clean
  /\ probe \in {[pc |-> "stored", stored |-> t, file |-> t, state |-> NoData,
                 begun |-> NoData, temp |-> NoData, mutated |-> FALSE] :
                  t \in StateFiles}

(* State.init with a local state file: the session's state is what the    *)
(* file holds, after State.check.                                          *)
SessionInit ==
  /\ probe.pc = "stored"
  /\ probe' = [probe EXCEPT !.pc = "session",
                            !.state = State_check(safe_load(probe.file))]
  /\ UNCHANGED <<pl, pidfile, proc, state, current_fabric, last>>

(* temp_state = deepcopy(ctx.obj.state) *)
Begin ==
  /\ probe.pc = "session"
  /\ probe' = [probe EXCEPT !.pc = "working", !.begun = probe.state,
                            !.temp = deepcopy(probe.state)]
  /\ UNCHANGED <<pl, pidfile, proc, state, current_fabric, last>>

(* A call that changes the working copy: set_object_state on p1. *)
Mutate ==
  /\ probe.pc = "working"
  /\ ~probe.mutated
  /\ HasKey(probe.temp, P1Path)
  /\ probe' = [probe EXCEPT !.mutated = TRUE,
                            !.temp = SetLeaf(probe.temp, P1Path \o <<"state">>, STOPPED)]
  /\ UNCHANGED <<pl, pidfile, proc, state, current_fabric, last>>

(* ctx.obj.state = deepcopy(temp_state); ctx.obj.state.dump(): the file is *)
(* written, or it is not and dump() returns False, which no command reads. *)
Commit ==
  /\ probe.pc = "working"
  /\ \E io_ok \in BOOLEAN :
       probe' = [probe EXCEPT !.pc = IF io_ok THEN "committed" ELSE "not written",
                              !.state = deepcopy(probe.temp),
                              !.file = IF io_ok THEN yaml_dump(deepcopy(probe.temp))
                                       ELSE probe.file]
  /\ UNCHANGED <<pl, pidfile, proc, state, current_fabric, last>>

NextRoundTrip == SessionInit \/ Begin \/ Mutate \/ Commit

SpecRoundTrip == RoundTripInit /\ [][NextRoundTrip]_vars

-----------------------------------------------------------------------------
(* create batch with a batch that asks for every step of the command (a   *)
(* fabric, a VPC, a controller, a processor and a workload to start and a *)
(* processor and a workload to stop) and with the batch of two fabrics.    *)
W2 == node_name(V1, "w", 2, "f1")

SequenceBatch ==
  [apiVersion |-> api_version,
   fabric |-> <<BFabric("f1")>>, vpc |-> <<BVpc(V1, "aws")>>, nodebatch |-> << >>,
   processor |-> <<BNode(P1, V1, STARTED, "confA"), BNode(P2, V1, STOPPED, "confA")>>,
   workload |-> <<BNode(W1, V1, STARTED, "confA"), BNode(W2, V1, STOPPED, "confA")>>,
   orchestrator |-> <<BOrchestrator(X1, V1, "controller", "manager", CONFIGURED)>>]

NextSequence ==
  \/ \E dry_run \in BOOLEAN : create_batch("sequence", SequenceBatch, dry_run)
  \/ create_batch("two_fabrics", Batches.two_fabrics, FALSE)

SpecSequence == Init /\ [][NextSequence]_vars

-----------------------------------------------------------------------------
(* The commands that plan the actions of a node: create batch with the    *)
(* batch of a processor and a workload and with the same batch under      *)
(* another config and the target stopped, set fabric, and the configure   *)
(* and update commands.                                                    *)
PlanBatches ==
  [nodes |-> Batches.nodes,
   nodes_stopped |->
     [Batches.nodes EXCEPT
        !.processor = <<BNode(P1, V1, STOPPED, "confB")>>,
        !.workload = <<BNode(W1, V1, STOPPED, "confB")>>]]

NextPlans ==
  \/ \E b \in DOMAIN PlanBatches : create_batch(b, PlanBatches[b], FALSE)
  \/ \E f \in FabricNames : set_fabric(f)
  \/ \E k \in {PROCESSOR, WORKLOAD}, all_nodes \in BOOLEAN :
        config_node(k, IF all_nodes THEN NoName ELSE IF k = PROCESSOR THEN P1 ELSE W1,
                    all_nodes, NoConf, FALSE)
  \/ \E all_nodes \in BOOLEAN :
        update_processor(IF all_nodes THEN NoName ELSE P1, all_nodes, FALSE)

SpecPlans == Init /\ [][NextPlans]_vars

-----------------------------------------------------------------------------
(* create batch with the batch of a processor and a workload to start,    *)
(* with the same batch under another config, and with the same batch      *)
(* under another config and the target stopped.                            *)
StoredBatches ==
  [nodes |-> Batches.nodes,
   nodes_changed |->
     [Batches.nodes EXCEPT
        !.processor = <<BNode(P1, V1, STARTED, "confB")>>,
        !.workload = <<BNode(W1, V1, STARTED, "confB")>>],
   nodes_stopped |-> PlanBatches.nodes_stopped]

NextStored ==
  \E b \in DOMAIN StoredBatches : create_batch(b, StoredBatches[b], FALSE)

SpecStored == Init /\ [][NextStored]_vars

-----------------------------------------------------------------------------
(* Terraform.get_output_variable_with_retries taken on its own, and what  *)
(* State.obj_create does with its result for one node: the inputs are the *)
(* number of retries and what each successive `terraform output` gives    *)
(* (an error, an empty text or an address).                                *)

MaxRetries == 3

None == "None"

RawOutputs == {"error", "", "10.0.0.1"}

(* Terraform.get_output_variable: None on an error and on an empty text. *)
get_output_variable(raw) ==
  IF raw = "error" THEN None ELSE IF raw = "" THEN None ELSE raw

(* The k-th run of `terraform output`. *)
OutputRun(outs, k) == IF k \in DOMAIN outs THEN outs[k] ELSE ""

(* A loop that makes one round more than `retries`. *)
RetryGuard_one_more(var, i, retries) == var = None /\ i <= retries + 1

(* while var is None and i <= retries *)
RetryGuard(var, i, retries) == var = None /\ i <= retries

RetryInputs ==
  [retries : 0..MaxRetries, outs : [1..(MaxRetries + 1) -> RawOutputs],
   pc : {"call"}, var : {None}, i : {0}, reads : {0}, refreshes : {0},
   node : {[state |-> Clean, status |-> Clean]}]

RetriesInit == CmdInit /\ pl = Clean /\ probe \in RetryInputs

(* var = self.get_output_variable(module, variable); i = 1 *)
FirstRead ==
  /\ probe.pc = "call"
  /\ probe' = [probe EXCEPT !.pc = "loop",
                            !.var = get_output_variable(OutputRun(probe.outs, 1)),
                            !.reads = 1, !.i = 1]
  /\ UNCHANGED <<pl, pidfile, proc, state, current_fabric, last>>

(* One round of the loop: terraform refresh, whose error is caught and    *)
(* logged, then the next read.                                             *)
RetryRound ==
  /\ probe.pc = "loop"
  /\ RetryGuard(probe.var, probe.i, probe.retries)
  /\ probe' = [probe EXCEPT
                 !.refreshes = @ + 1,
                 !.var = get_output_variable(OutputRun(probe.outs, probe.reads + 1)),
                 !.reads = @ + 1, !.i = @ + 1]
  /\ UNCHANGED <<pl, pidfile, proc, state, current_fabric, last>>

(* return var, and State.obj_create on the value: a node with no address  *)
(* is set (created, failed).                                               *)
ReturnOutput ==
  /\ probe.pc = "loop"
  /\ ~RetryGuard(probe.var, probe.i, probe.retries)
  /\ probe' = [probe EXCEPT
                 !.pc = "returned",
                 !.node = IF probe.var = None
                            THEN set_object_state_status(@, CREATED, FAILED) ELSE @]
  /\ UNCHANGED <<pl, pidfile, proc, state, current_fabric, last>>

NextRetries == FirstRead \/ RetryRound \/ ReturnOutput

SpecRetries == RetriesInit /\ [][NextRetries]_vars

(* The process that runs the function takes its next step. *)
SpecRetriesLive == SpecRetries /\ WF_vars(NextRetries)

-----------------------------------------------------------------------------
(* State.nodebatch_delete taken on its own: the state holds none, one or  *)
(* both of two NodeBatch entries, each of workloads or of processors and  *)
(* with its node in fabric f1 or in fabric f2 (entries that a create      *)
(* batch has left behind when the creation of their nodes failed), and    *)
(* the function is called for a fabric or for a VPC.                       *)

ScanPlaces == {<<"f1", V1>>, <<"f2", V2>>}

ScanEntry(kind, place) ==
  LET n == nodebatch_node_name(place[2], node_types_list[kind], 1, place[1])
  IN [state |-> CREATED, kind |-> kind,
      nodes |-> Put(EmptyDict, n, [name |-> n, fabric |-> place[1], vpc |-> place[2],
                                   state |-> STARTED, config |-> "confA"])]

ScanEntries == {ScanEntry(k, p) : k \in {WORKLOAD, PROCESSOR}, p \in ScanPlaces}

ScanBatches ==
  {EmptyDict}
    \cup {Put(EmptyDict, b, e) : b \in Range(BatchOrder), e \in ScanEntries}
    \cup {Put(Put(EmptyDict, "nb1", e1), "nb10", e2) : e1, e2 \in ScanEntries}

ScanInputs ==
  [batch : ScanBatches,
   target : {<<p[1], NoVpc>> : p \in ScanPlaces} \cup {<<NoFabric, p[2]>> : p \in ScanPlaces},
   done : {FALSE}, res : {EmptyDict}]

ScanInit == CmdInit /\ pl = Clean /\ probe \in ScanInputs

NodeBatchDelete ==
  /\ ~probe.done
  /\ probe' = [probe EXCEPT
                 !.done = TRUE,
                 !.res = nodebatch_delete([fabric |-> EmptyDict, batch |-> probe.batch],
                                          probe.target[1], probe.target[2]).batch]
  /\ UNCHANGED <<pl, pidfile, proc, state, current_fabric, last>>

NextScan == NodeBatchDelete

SpecScan == ScanInit /\ [][NextScan]_vars

-----------------------------------------------------------------------------
(* create batch with the batch of a processor and a workload, set fabric, *)
(* and delete batch with the batch of one processor and with the batch of *)
(* the fabric and its VPC.                                                 *)
FabricDeleteBatches ==
  [one_processor |-> DeleteBatches.one_processor,
   fabric_and_vpc |-> DeleteBatches.fabric_and_vpc]

NextFabricDelete ==
  \/ create_batch("nodes", Batches.nodes, FALSE)
  \/ \E f \in FabricNames : set_fabric(f)
  \/ \E b \in DOMAIN FabricDeleteBatches, dry_run \in BOOLEAN :
        delete_batch(b, FabricDeleteBatches[b], dry_run)

SpecFabricDelete == Init /\ [][NextFabricDelete]_vars

-----------------------------------------------------------------------------
(* Planner claims (SpecPlan). *)

PlanChanged == pl.bconf # pl.sconf

PlannedNode(status) == pl.done /\ RoleBearing(pl.role) /\ pl.status = status

IfChanged(a, b) == IF PlanChanged THEN a ELSE b

(* C1: for a Processor or Workload with status success the planner returns *)
(* exactly the listed action set for each of the ten listed                *)
(* (current state -> target state) rows.                                   *)
C1_SuccessTable ==
  PlannedNode(SUCCESS) =>
    /\ (pl.cur = CREATED /\ pl.target = CONFIGURED) => pl.out = {"config"}
    /\ (pl.cur = CREATED /\ pl.target = STARTED) => pl.out = {"config", "start"}
    /\ (pl.cur = CREATED /\ pl.target = STOPPED) => pl.out = {"config", "stop"}
    /\ (pl.cur = CONFIGURED /\ pl.target = CONFIGURED)
         => pl.out = IfChanged({"config"}, {})
    /\ (pl.cur = CONFIGURED /\ pl.target = STARTED)
         => pl.out = IfChanged({"config", "start"}, {"start"})
    /\ (pl.cur = CONFIGURED /\ pl.target = STOPPED)
         => pl.out = IfChanged({"config", "stop"}, {"stop"})
    /\ (pl.cur = STARTED /\ pl.target = STARTED)
         => pl.out = IfChanged({"config", "start"}, {})
    /\ (pl.cur = STARTED /\ pl.target = STOPPED)
         => pl.out = IfChanged({"config", "stop"}, {"stop"})
    /\ (pl.cur = STOPPED /\ pl.target = STOPPED)
         => pl.out = IfChanged({"config", "stop"}, {})
    /\ (pl.cur = STOPPED /\ pl.target = STARTED)
         => pl.out = IfChanged({"config", "start"}, {"start"})

(* C1 witness (Scenario B): a Processor in (configured, success) with an   *)
(* unchanged config and target started has been planned as {start}.        *)
C1_Witness ==
  /\ PlannedNode(SUCCESS) /\ pl.role = PROCESSOR
  /\ pl.cur = CONFIGURED /\ pl.target = STARTED /\ ~PlanChanged
  /\ pl.out = {"start"}

(* C2: for a Processor or Workload with status failed the planner returns  *)
(* {config} for configured->configured, {config,start} for                 *)
(* configured->started, {config,stop} for configured->stopped,             *)
(* {config,start} or {start} for started->started and {config,stop} or     *)
(* {stop} for stopped->stopped, by whether the batch config differs.       *)
C2_FailedTable ==
  PlannedNode(FAILED) =>
    /\ (pl.cur = CONFIGURED /\ pl.target = CONFIGURED) => pl.out = {"config"}
    /\ (pl.cur = CONFIGURED /\ pl.target = STARTED) => pl.out = {"config", "start"}
    /\ (pl.cur = CONFIGURED /\ pl.target = STOPPED) => pl.out = {"config", "stop"}
    /\ (pl.cur = STARTED /\ pl.target = STARTED)
         => pl.out = IfChanged({"config", "start"}, {"start"})
    /\ (pl.cur = STOPPED /\ pl.target = STOPPED)
         => pl.out = IfChanged({"config", "stop"}, {"stop"})

(* C2 witness: the retry of a started, failed node whose batch config      *)
(* differs from the stored one is planned as {start} alone.                *)
C2_Witness ==
  /\ PlannedNode(FAILED) /\ pl.cur = STARTED /\ pl.target = STARTED
  /\ PlanChanged /\ pl.out = {"start"}

PlannedOrchestrator == pl.done /\ pl.role = ORCHESTRATOR

(* C3 as stated: for an Orchestrator the planner yields {config} for       *)
(* created->configured and nothing for every other (state, status,         *)
(* target), and never start or stop.                                       *)
C3_OrchestratorOnlyFromCreated ==
  PlannedOrchestrator =>
    /\ pl.out = IF pl.cur = CREATED /\ pl.target = CONFIGURED
                  THEN {"config"} ELSE {}
    /\ pl.out \cap {"start", "stop"} = {}

(* C3 amended: for an Orchestrator the planner yields {config} for         *)
(* created->configured and for the retry configured(failed)->configured,   *)
(* nothing for every other combination, and never start or stop.           *)
C3_OrchestratorConfigOrRetry ==
  PlannedOrchestrator =>
    /\ pl.out = IF \/ pl.cur = CREATED /\ pl.target = CONFIGURED
                   \/ /\ pl.cur = CONFIGURED /\ pl.status = FAILED
                      /\ pl.target = CONFIGURED
                  THEN {"config"} ELSE {}
    /\ pl.out \cap {"start", "stop"} = {}

(* C3 witness: an Orchestrator in (configured, failed) with target         *)
(* configured has been planned as {config}.                                *)
C3_Witness ==
  /\ PlannedOrchestrator /\ pl.cur = CONFIGURED /\ pl.status = FAILED
  /\ pl.target = CONFIGURED /\ pl.out = {"config"}

-----------------------------------------------------------------------------
(* Command claims. *)

(* The object a call was made for, as the persisted state holds it. *)
Persisted(fabric, o) ==
  /\ fabric \in DOMAIN state.fabric
  /\ IF o[1] = FABRIC THEN TRUE ELSE o[2] \in DOMAIN state.fabric[fabric][o[1]]

PersistedStatus(fabric, o) ==
  IF o[1] = FABRIC THEN state.fabric[fabric].status
  ELSE state.fabric[fabric][o[1]][o[2]].status

FailedCalls == {c \in last.calls : ~c.ok}

(* C4: when a command's Provisioner or Configurator call for an object     *)
(* fails, the state persisted at the command's exit holds that object with *)
(* status failed; this holds for every command.                            *)
C4_FailureRecorded ==
  \A c \in FailedCalls : \A o \in c.objs :
    Persisted(c.fabric, o) /\ PersistedStatus(c.fabric, o) = FAILED

(* The case of C4: a command whose external call has failed. *)
C4_Witness == last.cmd = "create vpc" /\ FailedCalls # {}

SuccessOfType(fabric, type) ==
  {n \in DOMAIN state.fabric[fabric].orchestrator :
     /\ state.fabric[fabric].orchestrator[n].type = type
     /\ state.fabric[fabric].orchestrator[n].status = SUCCESS}

(* C8: after any sequence of create, configure, update and delete commands *)
(* every fabric holds at most one orchestrator of each type whose status   *)
(* is success.                                                             *)
C8_OneSuccessPerType ==
  \A f \in DOMAIN state.fabric : \A t \in OrchestratorTypes :
    Cardinality(SuccessOfType(f, t)) <= 1

(* The case of C8: a second orchestrator of a type is asked for while the  *)
(* fabric holds one of that type.                                          *)
C8_Witness ==
  /\ last.cmd = "create orchestrator"
  /\ \E f \in DOMAIN state.fabric : \E t \in OrchestratorTypes :
       Cardinality({n \in DOMAIN state.fabric[f].orchestrator :
                      state.fabric[f].orchestrator[n].type = t}) > 1

(* C6: a command run with --dry-run leaves the persisted state as it was *)
(* and makes no Provisioner or Configurator call; create batch included.  *)
C6_DryRunNoEffect ==
  [][last'.dry => state' = state /\ last'.calls = {}]_vars

(* The case of C6: a batch run with --dry-run has ended. *)
C6_Witness == last.cmd = "create batch" /\ last.dry

(* The orchestrator entries of a batch that follow an entry of the same   *)
(* type and fabric.                                                        *)
LaterOfType(batch) ==
  {batch.orchestrator[j].name : j \in
     {i \in 1..Len(batch.orchestrator) :
        \E h \in 1..(i - 1) :
          /\ batch.orchestrator[h].type = batch.orchestrator[i].type
          /\ batch.orchestrator[h].fabric = batch.orchestrator[i].fabric}}

(* The orchestrator entries of a batch whose fabric holds another         *)
(* orchestrator of their type in status success.                          *)
Shadowed(s, batch) ==
  {e.name : e \in {o \in Range(batch.orchestrator) :
     /\ o.fabric \in DOMAIN s.fabric
     /\ \E n \in DOMAIN s.fabric[o.fabric].orchestrator :
          /\ n # o.name
          /\ s.fabric[o.fabric].orchestrator[n].type = o.type
          /\ s.fabric[o.fabric].orchestrator[n].status = SUCCESS}}

CallsFor(calls, name) == {c \in calls : <<ORCHESTRATOR, name>> \in c.objs}

(* C9: of the orchestrators of one type that a batch declares for a       *)
(* fabric only the first is created and configured, the others cause no   *)
(* Provisioner or Configurator action; an entry whose fabric holds        *)
(* another orchestrator of its type in status success causes no action.   *)
C9_DuplicatesCauseNoAction ==
  [][last'.cmd = "create batch" =>
       \A n \in LaterOfType(Batches[last'.arg[1]])
                  \cup Shadowed(state, Batches[last'.arg[1]]) :
         CallsFor(last'.calls, n) = {}]_vars

(* The case of C9: a batch with two controllers has run. *)
C9_Witness ==
  /\ last.cmd = "create batch"
  /\ LaterOfType(Batches[last.arg[1]]) # {}
  /\ last.calls # {}

(* C10: in every persisted state at most one orchestrator of a fabric has *)
(* the role manager.                                                       *)
C10_OneManager ==
  \A f \in DOMAIN state.fabric : Cardinality(Managers(state, f)) <= 1

(* The case of C10: a fabric with two orchestrators, one of them manager. *)
C10_Witness ==
  \E f \in DOMAIN state.fabric :
    /\ Cardinality(DOMAIN state.fabric[f].orchestrator) > 1
    /\ Managers(state, f) # {}

(* The processors that are the only processor of their VPC while the VPC *)
(* holds a workload.                                                       *)
LastProcessors(s) ==
  {<<f, n>> : f \in DOMAIN s.fabric, n \in AllProcessorNames} \cap
  UNION {{<<f, n>> : n \in
            {q \in DOMAIN s.fabric[f].processor :
               /\ VpcNodes(s, f, PROCESSOR, s.fabric[f].processor[q].vpc) = {q}
               /\ VpcNodes(s, f, WORKLOAD, s.fabric[f].processor[q].vpc) # {}}} :
         f \in DOMAIN s.fabric}

(* The command that has ended asked for the processor n of fabric f to be *)
(* deleted: delete processor in the current fabric f, or a confirmed      *)
(* delete batch that lists n.                                              *)
AskedToDelete(l, cur, f, n) ==
  \/ l.cmd = "delete processor" /\ l.arg = <<n>> /\ cur = f
  \/ /\ l.cmd = "delete batch"
     /\ f \in Range(l.fabrics)
     /\ n \in Range(Target(DeleteBatches[l.arg[1]], f, PROCESSOR))

(* C7: deleting the only processor of a VPC that holds a workload is      *)
(* rejected and leaves the persisted state unchanged, for delete          *)
(* processor and for a processor listed in delete batch.                  *)
C7_LastProcessorKept ==
  [][\A o \in LastProcessors(state) :
       AskedToDelete(last', current_fabric, o[1], o[2])
         => state' = state /\ last'.exit # 0]_vars

(* The case of C7: a delete of a processor has been rejected while its    *)
(* VPC holds a workload.                                                   *)
C7_Witness ==
  /\ last.cmd \in {"delete processor", "delete batch"}
  /\ last.exit # 0
  /\ LastProcessors(state) # {}

(* C5: in create batch the failure of one object never keeps the other  *)
(* fabrics of the batch from being processed: every fabric of the batch   *)
(* has its round, and the batch ends in failure when a call has failed.   *)
C5_EveryFabricAttempted ==
  last.cmd = "create batch" =>
    /\ last.fabrics = TargetFabrics(Batches[last.arg[1]])
    /\ FailedCalls # {} => last.exit # 0

(* The case of C5: a batch of two fabrics has met a failing call. *)
C5_Witness ==
  /\ last.cmd = "create batch"
  /\ Len(TargetFabrics(Batches[last.arg[1]])) > 1
  /\ FailedCalls # {}

-----------------------------------------------------------------------------
(* The objects of a persisted state, as <<fabric, kind, name>>, the fabric *)
(* itself being <<fabric, FABRIC, fabric>>.                                *)
ObjectsOf(s) ==
  {<<f, FABRIC, f>> : f \in DOMAIN s.fabric}
  \cup UNION {UNION {{<<f, k, n>> : n \in DOMAIN s.fabric[f][k]} :
                       k \in NodeKinds \cup {VPC}} : f \in DOMAIN s.fabric}

ObjectAt(s, o) == IF o[2] = FABRIC THEN s.fabric[o[1]] ELSE s.fabric[o[1]][o[2]][o[3]]

(* C11: once the persisted state of an object is deleting, a command      *)
(* either leaves it deleting or removes the object.                        *)
C11_DeletingIsTerminal ==
  [][\A o \in ObjectsOf(state) :
       check_object_state(ObjectAt(state, o), DELETING)
         => \/ o \notin ObjectsOf(state')
            \/ check_object_state(ObjectAt(state', o), DELETING)]_vars

(* create fabric has run on a fabric whose deletion had failed: its VPC   *)
(* is still deleting.                                                      *)
C11_Witness ==
  /\ last.cmd = "create fabric"
  /\ last.calls # {}
  /\ \E o \in ObjectsOf(state) :
       /\ o[1] = last.arg[1]
       /\ o[2] = VPC
       /\ check_object_state(ObjectAt(state, o), DELETING)

(* The command `verb kind name` is run on a node that the persisted state *)
(* holds in (st, failed), and makes the call of its playbook for it.       *)
Reissues(verb, st) ==
  \A k \in {PROCESSOR, WORKLOAD} :
    LET fabric == get_current_fabric(state, current_fabric)
        objs == get_fabric_objects(state, k, fabric)
    IN (/\ fabric # NoFabric
        /\ last'.cmd = verb \o " " \o k
        /\ ~last'.dry
        /\ ~last'.arg[2]
        /\ last'.arg[1] \in DOMAIN objs
        /\ check_object_state_status(objs[last'.arg[1]], st, FAILED))
       => \E c \in last'.calls :
            /\ c.what = verb \o "-" \o k \o ".yml"
            /\ <<k, last'.arg[1]>> \in c.objs

(* C12: start NAME on a node left in (started, failed) issues start       *)
(* again, and stop NAME on a node left in (stopped, failed) issues stop    *)
(* again.                                                                  *)
C12_RetryReissues == [][Reissues("start", STARTED) /\ Reissues("stop", STOPPED)]_vars

(* start processor NAME has run on a processor left in (started, failed). *)
C12_Witness ==
  /\ last.cmd = "start processor"
  /\ ~last.dry
  /\ ~last.arg[2]
  /\ current_fabric # NoFabric
  /\ last.arg[1] \in DOMAIN state.fabric[current_fabric].processor
  /\ check_object_state_status(state.fabric[current_fabric].processor[last.arg[1]],
                               STARTED, FAILED)
  /\ last.calls = {}

-----------------------------------------------------------------------------
(* NodeBatch claims (SpecNodeBatch). *)

(* The objects of the nodes that entry b of state['batch'] keeps, as the *)
(* fabric of state s holds them.                                           *)
BatchNodeReached(s, entry, n) ==
  LET f == entry.nodes[n].fabric
  IN /\ check_fabric(s, f)
     /\ check_nodeobj(s, f, n, entry.kind)
     /\ check_object_state_status(get_fabric_object(s, entry.kind, n, f),
                                  entry.nodes[n].state, SUCCESS)

(* C13: create batch removes a NodeBatch from the batch map of the state  *)
(* only when every node the NodeBatch has generated is in the state of    *)
(* the template with status success; until then the entry stays.          *)
C13_RemovedWhenReached ==
  [][\A b \in DOMAIN state.batch :
       (last'.cmd = "create batch" /\ ~check_nodebatch(state', b))
         => \A n \in DOMAIN state.batch[b].nodes :
              BatchNodeReached(state', state.batch[b], n)]_vars

(* A run of create batch has ended with no NodeBatch in the state and     *)
(* with a generated processor whose start has failed.                      *)
C13_Witness ==
  /\ last.cmd = "create batch"
  /\ last.arg = <<"nodebatch">>
  /\ state.batch = EmptyDict
  /\ \E c \in last.calls : c.what = "start-processor.yml" /\ ~c.ok

(* The nodes of the fabrics of state s. *)
NodesOf(s) == {o \in ObjectsOf(s) : o[2] \in NodeKinds}

(* C14: a run of create batch that follows a run of the same file which   *)
(* has ended well, its NodeBatch removed, adds no node to a fabric.        *)
C14_SecondRunAddsNoNode ==
  [][(/\ last.cmd = "create batch" /\ last.exit = 0
      /\ last'.cmd = "create batch" /\ last'.arg = last.arg
      /\ last.arg[1] \in DOMAIN NodeBatchFiles)
        => NodesOf(state') \subseteq NodesOf(state)]_vars

(* The second of two runs of the NodeBatch file has ended well and the    *)
(* fabric holds two processors.                                            *)
C14_Witness ==
  /\ last.cmd = "create batch" /\ last.arg = <<"nodebatch">> /\ last.exit = 0
  /\ check_fabric(state, "f1")
  /\ Cardinality(DOMAIN get_fabric_objects(state, PROCESSOR, "f1")) = 2
  /\ state.batch = EmptyDict

-----------------------------------------------------------------------------
(* Node name and index claims (SpecNamed, SpecTen). *)

(* C15: a create command leaves as it is every node that it finds in a    *)
(* fabric and that is not (created, failed): it never writes a new node   *)
(* over it.                                                                *)
C15_CreateNeverReplaces ==
  [][last'.cmd \in {"create orchestrator", "create processor", "create workload"}
       => \A o \in NodesOf(state) :
            ~check_object_state_status(ObjectAt(state, o), CREATED, FAILED)
              => /\ o \in NodesOf(state')
                 /\ ObjectAt(state', o) = ObjectAt(state, o)]_vars

(* create processor has written its node of index 2 over the processor    *)
(* that the batch has created under that name with index 1.                *)
C15_Witness ==
  /\ last.cmd = "create processor" /\ last.calls # {}
  /\ check_fabric(state, "f1")
  /\ DOMAIN get_fabric_objects(state, PROCESSOR, "f1") = {P2}
  /\ get_fabric_object(state, PROCESSOR, P2, "f1").index = 2

(* The names of the nodes that the calls of the last command were about. *)
MadeNodes(l) == {o[2] : o \in UNION {c.objs : c \in l.calls}}

(* C16: create processor allocates index 1 in a VPC with no processor;    *)
(* the index and the name of the processor allocated last when that one   *)
(* is (created, failed); and the highest index plus one otherwise.         *)
C16_Allocation ==
  [][(last'.cmd = "create processor" /\ last'.calls # {}) =>
       LET fabric == get_current_fabric(state, current_fabric)
           scope == VpcNodes(state, fabric, PROCESSOR, last'.arg[2])
           before == get_fabric_objects(state, PROCESSOR, fabric)
           after == get_fabric_objects(state', PROCESSOR, fabric)
           top == Max({before[n].index : n \in scope})
           failed == {n \in scope : /\ before[n].index = top
                                    /\ check_object_state_status(before[n],
                                                                 CREATED, FAILED)}
       IN \A n \in MadeNodes(last') :
            IF scope = {} THEN after[n].index = 1
            ELSE IF failed # {} THEN n \in failed /\ after[n].index = top
            ELSE after[n].index = top + 1]_vars

(* create processor has made again the processor named 02, with index 2, *)
(* while the processor of index 2, named 01, is (created, failed).        *)
C16_Witness ==
  /\ last.cmd = "create processor" /\ MadeNodes(last) = {P2}
  /\ check_fabric(state, "f1")
  /\ check_nodeobj(state, "f1", P1, PROCESSOR)
  /\ check_object_state_status(get_fabric_object(state, PROCESSOR, P1, "f1"),
                               CREATED, FAILED)
  /\ get_fabric_object(state, PROCESSOR, P1, "f1").index = 2
  /\ get_fabric_object(state, PROCESSOR, P2, "f1").index = 2

(* C17: in a fabric, two VPCs of a cloud have two indexes, and so have    *)
(* two nodes of a kind in a VPC.                                           *)
C17_UniqueIndex ==
  \A f \in DOMAIN state.fabric :
    /\ \A v, w \in DOMAIN state.fabric[f].vpc :
         (v # w /\ state.fabric[f].vpc[v].cloud = state.fabric[f].vpc[w].cloud)
           => state.fabric[f].vpc[v].index # state.fabric[f].vpc[w].index
    /\ \A k \in NodeKinds : \A n, m \in DOMAIN state.fabric[f][k] :
         (n # m /\ state.fabric[f][k][n].vpc = state.fabric[f][k][m].vpc)
           => state.fabric[f][k][n].index # state.fabric[f][k][m].index

(* Two processors of one VPC, both created with success, hold index 2. *)
C17_Witness ==
  /\ check_fabric(state, "f1")
  /\ DOMAIN get_fabric_objects(state, PROCESSOR, "f1") = {P1, P2}
  /\ \A n \in {P1, P2} :
       /\ get_fabric_object(state, PROCESSOR, n, "f1").index = 2
       /\ get_fabric_object(state, PROCESSOR, n, "f1").vpc = V1
       /\ check_object_state_status(get_fabric_object(state, PROCESSOR, n, "f1"),
                                    CREATED, SUCCESS)

(* The letter of a kind of node in a name. *)
NodeLetter(obj_kind) ==
  IF obj_kind = ORCHESTRATOR THEN "c" ELSE IF obj_kind = PROCESSOR THEN "p" ELSE "w"

(* C18: the name of every node is made of the first token of the name of *)
(* its VPC, the letter of its kind, its index in two digits, and its      *)
(* fabric.                                                                 *)
C18_NameFormat ==
  \A o \in NodesOf(state) :
    o[3] = node_name(ObjectAt(state, o).vpc, NodeLetter(o[2]),
                     ObjectAt(state, o).index, o[1])

(* The tenth processor of the NodeBatch is in the fabric under the name   *)
(* with the digits 010.                                                    *)
C18_Witness ==
  /\ last.cmd = "create batch" /\ last.arg = <<"ten">>
  /\ check_fabric(state, "f1")
  /\ check_nodeobj(state, "f1", nodebatch_node_name(V1, "p", 10, "f1"), PROCESSOR)
  /\ get_fabric_object(state, PROCESSOR, nodebatch_node_name(V1, "p", 10, "f1"),
                       "f1").index = 10

-----------------------------------------------------------------------------
(* Workloads with no processor (SpecOrphan, SpecNodes). *)

(* The run of create batch on state s in which no external call fails. *)
CleanRun(s, batch) ==
  RunBatch([pub |-> s, ok |-> TRUE, exit |-> FALSE, calls |-> {}, trace |-> << >>,
            done |-> << >>],
           batch, TargetFabrics(batch), {})

(* C19: a run of the batch that declares workload W1 in a VPC with no     *)
(* processor, and controller X1, makes no call about W1 and, when no      *)
(* call fails, creates and configures X1.                                  *)
C19_RestProceeds ==
  (\A f \in DOMAIN state.fabric :
     check_vpc(state, f, V1) => VpcNodes(state, f, PROCESSOR, V1) = {})
    => /\ \A c \in CleanRun(state, Batches.orphan).calls : <<WORKLOAD, W1>> \notin c.objs
       /\ check_fabric(CleanRun(state, Batches.orphan).pub, "f1")
       /\ check_nodeobj(CleanRun(state, Batches.orphan).pub, "f1", X1, ORCHESTRATOR)
       /\ check_object_state_status(
            get_fabric_object(CleanRun(state, Batches.orphan).pub, ORCHESTRATOR, X1,
                              "f1"), CONFIGURED, SUCCESS)

(* A run of that batch has ended with exit code 1 and no failed call: the *)
(* fabric and the VPC are there, the controller is not.                    *)
C19_Witness ==
  /\ last.cmd = "create batch" /\ last.arg = <<"orphan">> /\ last.exit = 1
  /\ last.calls # {} /\ \A c \in last.calls : c.ok
  /\ check_fabric(state, "f1") /\ check_vpc(state, "f1", V1)
  /\ get_fabric_objects(state, ORCHESTRATOR, "f1") = EmptyDict
  /\ get_fabric_objects(state, WORKLOAD, "f1") = EmptyDict

(* The workloads of fabric f whose VPC holds no processor. *)
Orphans(s, f) ==
  {w \in DOMAIN get_fabric_objects(s, WORKLOAD, f) :
     VpcNodes(s, f, PROCESSOR, get_fabric_object(s, WORKLOAD, w, f).vpc) = {}}

(* The (state, status) of every object of s. *)
StateStatus(s) ==
  [o \in ObjectsOf(s) |-> <<ObjectAt(s, o).state, ObjectAt(s, o).status>>]

(* The workloads that the last command, start or stop workload, was asked *)
(* to act on in fabric f of state s.                                       *)
Requested(s, f, l) ==
  IF l.arg[2]
    THEN {w \in DOMAIN get_fabric_objects(s, WORKLOAD, f) :
            get_object_state(get_fabric_object(s, WORKLOAD, w, f))
              \notin {DELETING, CREATED}}
    ELSE {l.arg[1]} \cap DOMAIN get_fabric_objects(s, WORKLOAD, f)

-----------------------------------------------------------------------------
(* Credential claims (SpecCreds). *)

CompleteIn(p, src, cloud) ==
  CASE src = "fabric" ->
         p.fabric_file \notin {NoFile, MissingFile}
           /\ p.fabric_file[cloud] = "full"
    [] src = "global" ->
         p.global_file \notin {NoFile, MissingFile}
           /\ p.global_file[cloud] = "full"
    [] OTHER -> p.env[cloud] = "full"

FirstComplete(p, cloud) ==
  IF CompleteIn(p, "fabric", cloud) THEN "fabric"
  ELSE IF CompleteIn(p, "global", cloud) THEN "global"
  ELSE IF CompleteIn(p, "env", cloud) THEN "env"
  ELSE "none"

\* C21: resolution succeeds exactly when every required cloud has a
\* complete credential set in the fabric file, the global file or the
\* environment, and each cloud's values come from the first of these that
\* is complete; a source that is not configured, not found or incomplete
\* is passed over.
C21_Resolution ==
  probe.done =>
    LET R == {probe.clouds[i] : i \in DOMAIN probe.clouds}
    IN /\ probe.res.out = "ok" <=>
            \A c \in R : FirstComplete(probe, c) # "none"
       /\ probe.res.out = "ok" =>
            \A c \in R : probe.res.from[c] = FirstComplete(probe, c)

\* The configured global file is not found, the environment holds every
\* variable of every required cloud, and resolution fails.
C21_Witness ==
  /\ probe.done
  /\ probe.global_file = MissingFile
  /\ probe.fabric_file = NoFile
  /\ \A i \in DOMAIN probe.clouds : probe.env[probe.clouds[i]] = "full"
  /\ probe.res.out = "fail"

-----------------------------------------------------------------------------
(* Missing credentials inside create batch (SpecTwoFabrics). *)

(* Two states hold the same objects in the same (state, status), and the  *)
(* same NodeBatch entries.                                                 *)
SameObjects(a, b) ==
  StateStatus(a) = StateStatus(b) /\ DOMAIN a.batch = DOMAIN b.batch

(* C22: when the credentials of a fabric cannot be resolved, the VPC      *)
(* block and the node block of create batch make no call for that fabric  *)
(* and leave the persisted state as it was when the block began (the      *)
(* blocks before it have succeeded).                                       *)
C22_NoCallNoChange ==
  \A b \in NodeBatches : \A f \in Range(TargetFabrics(Batches[b])) :
    With(BatchFabricBlock(state, Batches[b], f, {}), LAMBDA fb :
      fb.go =>
        /\ With(BatchVpcBlock(fb.pub, Batches[b], f, {<<f, "vpc_credentials">>}),
                LAMBDA vpcs :
                  vpcs.exit => SameObjects(vpcs.pub, fb.pub) /\ vpcs.calls = {})
        /\ With(BatchVpcBlock(fb.pub, Batches[b], f, {}), LAMBDA vb :
             ~vb.exit =>
               With(BatchNodeBlock(vb.pub, Batches[b], f, {<<f, "node_credentials">>}),
                    LAMBDA nodes :
                      nodes.exit =>
                        SameObjects(nodes.pub, vb.pub) /\ nodes.calls = {})))

(* A run of the batch of a processor and a workload has ended with exit   *)
(* code 1 and no call about a VPC, and the state holds VPC V1 with no     *)
(* state and no status.                                                    *)
C22_Witness ==
  /\ last.cmd = "create batch" /\ last.arg = <<"nodes">> /\ last.exit = 1
  /\ \A c \in last.calls : <<VPC, V1>> \notin c.objs
  /\ check_vpc(state, "f1", V1)
  /\ get_object_state(get_fabric_object(state, VPC, V1, "f1")) = Clean
  /\ get_object_status(get_fabric_object(state, VPC, V1, "f1")) = Clean

-----------------------------------------------------------------------------
(* State and status validation (SpecSetState). *)

(* C23: with a state or a status that the enumerations do not have,       *)
(* set_object_state_status changes neither the state nor the status of    *)
(* the object; with two valid values it stores both; and what it stores   *)
(* is a member of ObjectState or ObjectStatus.                             *)
C23_ValidatedPair ==
  probe.done =>
    /\ (probe.st \notin ObjectState \/ probe.status \notin ObjectStatus)
         => probe.res = probe.obj
    /\ (probe.st \in ObjectState /\ probe.status \in ObjectStatus)
         => probe.res = [state |-> probe.st, status |-> probe.status]
    /\ probe.res.state # probe.obj.state => probe.res.state \in ObjectState
    /\ probe.res.status # probe.obj.status => probe.res.status \in ObjectStatus

(* The call has passed an unknown state with status failed on an object   *)
(* that was (created, success): the object is now (created, failed).      *)
C23_Witness ==
  /\ probe.done
  /\ probe.st = Bogus /\ probe.status = FAILED
  /\ probe.obj = [state |-> CREATED, status |-> SUCCESS]
  /\ probe.res = [state |-> CREATED, status |-> FAILED]

-----------------------------------------------------------------------------
(* Deleting a fabric or a VPC that still holds objects (SpecDelete). *)

(* C24: delete fabric on a fabric that holds a VPC or a node, and delete  *)
(* vpc on a VPC of the current fabric that a node is in, end with exit    *)
(* code 1, make no call and leave the persisted state as it was.          *)
C24_DependentsBlock ==
  [][/\ (/\ last'.cmd = "delete fabric"
         /\ check_fabric(state, last'.arg[1])
         /\ \/ DOMAIN get_fabric_objects(state, VPC, last'.arg[1]) # {}
            \/ FabricNodes(state, last'.arg[1]) # {})
          => state' = state /\ last'.calls = {} /\ last'.exit = 1
     /\ (/\ last'.cmd = "delete vpc"
         /\ get_current_fabric(state, current_fabric) # NoFabric
         /\ check_vpc(state, get_current_fabric(state, current_fabric), last'.arg[1])
         /\ \E k \in NodeKinds :
              VpcNodes(state, get_current_fabric(state, current_fabric), k,
                       last'.arg[1]) # {})
          => state' = state /\ last'.calls = {} /\ last'.exit = 1]_vars

(* delete fabric has been rejected on a fabric that holds a VPC and a     *)
(* processor.                                                              *)
C24_Witness ==
  /\ last.cmd = "delete fabric" /\ last.arg = <<"f1">>
  /\ last.exit = 1 /\ last.calls = {}
  /\ check_fabric(state, "f1") /\ check_vpc(state, "f1", V1)
  /\ check_nodeobj(state, "f1", P1, PROCESSOR)

-----------------------------------------------------------------------------
(* Batch files of another API version (SpecVersion). *)

(* C25: create batch and delete batch with a file of another apiVersion   *)
(* end with a non-zero exit code, make no call and leave the persisted    *)
(* state as it was.                                                        *)
C25_OtherVersionRejected ==
  [][(/\ last'.cmd \in {"create batch", "delete batch"}
      /\ last'.arg[1] \in DOMAIN OtherVersionFiles)
       => state' = state /\ last'.calls = {} /\ last'.exit # 0]_vars

(* delete batch with the file of the other version has deleted the fabric *)
(* and ended with exit code 0.                                             *)
C25_Witness ==
  /\ last.cmd = "delete batch" /\ last.arg = <<"other_fabric_and_vpc">>
  /\ last.exit = 0
  /\ \E c \in last.calls : c.what = "delete-fabric.yml" /\ c.ok
  /\ ~check_fabric(state, "f1")

-----------------------------------------------------------------------------
(* One process at a time (SpecLock). *)

InMain(p) == proc[p].pc \in {"main", "session"}

(* C26: at most one process is inside main(); a process that comes to the *)
(* lock while another one holds it ends with exit code 1, having neither  *)
(* read nor written the state.                                             *)
C26_OneInMain ==
  /\ [](Cardinality({p \in Procs : InMain(p)}) <= 1)
  /\ [][\A p \in Procs :
          (proc[p].pc = "started" /\ pidfile # NoProc /\ proc'[p] # proc[p])
            => proc'[p] = [pc |-> "exited", reads |-> FALSE, writes |-> FALSE,
                           exit |-> 1]]_vars

(* One process is in its session and has dumped the state; another has    *)
(* ended with exit code 1 and has not read the state.                      *)
C26_Witness ==
  \E p, q \in Procs :
    /\ p # q
    /\ pidfile = p /\ proc[p].pc = "session" /\ proc[p].writes
    /\ proc[q] = [pc |-> "exited", reads |-> FALSE, writes |-> FALSE, exit |-> 1]

-----------------------------------------------------------------------------
(* Exit codes (SpecProxy). *)

(* C27: a command one of whose external calls has failed ends with the    *)
(* exit code of the tool; a command with no failed call ends with 0 or,   *)
(* on a validation failure, with 1.                                        *)
C27_ExitCodes ==
  [][last' # last =>
       IF \E c \in last'.calls : ~c.ok THEN last'.exit = ToolExit
       ELSE last'.exit \in {0, 1}]_vars

(* create batch has ended with exit code 1 after its playbook that starts *)
(* the processor has failed.                                               *)
C27_Witness ==
  /\ last.cmd = "create batch" /\ last.exit = 1
  /\ \E c \in last.calls : c.what = "start-processor.yml" /\ ~c.ok

-----------------------------------------------------------------------------
(* Target claims (SpecTargets). *)

TargetCmdNames ==
  {"start processor", "stop processor", "configure processor", "update processor"}

(* C28: a start, stop, configure or update command given both a name and  *)
(* --all ends with exit code 1, makes no external call and leaves the      *)
(* state as it was; given --all alone, no external call it makes names an  *)
(* object that the state held as deleting.                                 *)
C28_NameOrAll ==
  [][last'.cmd \in TargetCmdNames /\ last'.arg[2]
       => IF last'.arg[1] # NoName
            THEN /\ state' = state
                 /\ last'.calls = {}
                 /\ last'.exit = 1
            ELSE \A c \in last'.calls : \A o \in c.objs :
                   ~check_object_state(state.fabric[c.fabric][o[1]][o[2]], DELETING)]_vars

(* A command with --all alone has made its call while a processor of the  *)
(* fabric was deleting.                                                    *)
C28_Witness ==
  /\ last.cmd \in TargetCmdNames
  /\ last.arg[2]
  /\ last.arg[1] = NoName
  /\ \E c \in last.calls :
       /\ c.objs # {}
       /\ \E n \in DOMAIN state.fabric[c.fabric].processor :
            check_object_state(state.fabric[c.fabric].processor[n], DELETING)

-----------------------------------------------------------------------------
(* State file claims (SpecRoundTrip). *)

-----------------------------------------------------------------------------
(* Sequence claims (SpecSequence). *)

(* The playbooks and Terraform runs of the steps of create batch, in the  *)
(* order the claim gives: fabric create, fabric configure, VPC            *)
(* provisioning, node provisioning, orchestrator configure, processor     *)
(* configure, start and stop, workload configure, start and stop.         *)
PhaseOrder ==
  <<{"create-fabric.yml"}, {"configure-fabric.yml"}, {"vpc"},
    {"node", "check-node-online.yml", "create-node.yml"},
    {"install-swarm-manager.yml", "configure-orchestrator.yml"},
    {"configure-processor.yml"}, {"start-processor.yml"}, {"stop-processor.yml"},
    {"configure-workload.yml"}, {"start-workload.yml"}, {"stop-workload.yml"}>>

PhaseOf(step) == {i \in DOMAIN PhaseOrder : \A c \in step : c.what \in PhaseOrder[i]}

FabricsOfStep(step) == {c.fabric : c \in step}

(* C30: the calls of one run of create batch for one fabric are made in   *)
(* the order of PhaseOrder, one step after the other, and every call of   *)
(* the run belongs to one of these steps.                                  *)
C30_Sequence ==
  last.cmd = "create batch"
    => /\ UNION Range(last.trace) = last.calls
       /\ \A i \in DOMAIN last.trace : Cardinality(PhaseOf(last.trace[i])) = 1
       /\ \A i, j \in DOMAIN last.trace :
            i < j /\ FabricsOfStep(last.trace[i]) = FabricsOfStep(last.trace[j])
              => \A a \in PhaseOf(last.trace[i]), b \in PhaseOf(last.trace[j]) : a < b

(* A run of create batch has made the calls of every one of the steps.    *)
C30_Witness ==
  /\ last.cmd = "create batch"
  /\ Len(last.trace) = Len(PhaseOrder)

-----------------------------------------------------------------------------
(* Plan claims (SpecPlans). *)

(* The plans that the commands can compute for the node n of kind k as    *)
(* the state holds it: the one of set_action_list for every target and    *)
(* declared config, and those of configure_actions_list and                *)
(* update_actions_list.                                                    *)
PlansOf(f, k, n) ==
  LET obj == state.fabric[f][k][n]
      in(list) == IF n \in list THEN {"x"} ELSE {}
      lists(al) == [config |-> in(al.config), start |-> in(al.start),
                    stop |-> in(al.stop)]
      planned(t, conf) ==
        set_action_list(get_object_state(obj), get_object_status(obj), t, k, conf,
                        obj.config)
  IN {[config |-> in(IF "config" \in planned(t, conf) THEN {n} ELSE {}),
       start |-> in(IF "start" \in planned(t, conf) THEN {n} ELSE {}),
       stop |-> in(IF "stop" \in planned(t, conf) THEN {n} ELSE {})] :
        t \in ObjectState, conf \in ConfValues}
     \cup {lists(configure_actions_list(state, f, k, {n})),
           lists(update_actions_list(state, f, k, {n}))}

StepsOf(verb, o) ==
  {i \in DOMAIN last.trace :
     \E c \in last.trace[i] : c.what = verb \o "-" \o o[1] \o ".yml" /\ o \in c.objs}

(* C31: no plan of a node holds it on the start list and on the stop      *)
(* list; and in the calls of a command, in the order of their making,     *)
(* the configure call of a node comes before its start or stop call.      *)
C31_ConfigFirst ==
  /\ \A f \in DOMAIN state.fabric : \A k \in {PROCESSOR, WORKLOAD} :
       \A n \in DOMAIN state.fabric[f][k] : \A plan \in PlansOf(f, k, n) :
         plan.start = {} \/ plan.stop = {}
  /\ \A c \in last.calls : \A o \in c.objs :
       /\ StepsOf("start", o) = {} \/ StepsOf("stop", o) = {}
       /\ \A i \in StepsOf("configure", o) :
            \A j \in StepsOf("start", o) \cup StepsOf("stop", o) : i < j

(* A command has configured a node and then started or stopped it. *)
C31_Witness ==
  \E c \in last.calls : \E o \in c.objs :
    /\ StepsOf("configure", o) # {}
    /\ StepsOf("start", o) \cup StepsOf("stop", o) # {}

-----------------------------------------------------------------------------
(* Step claims (SpecSequence). *)

(* The object of a call, as ObjectsOf names it. *)
KeyOf(c, o) == IF o[1] = FABRIC THEN <<c.fabric, FABRIC, c.fabric>>
               ELSE <<c.fabric, o[1], o[2]>>

(* The state in which a step leaves the objects it is made for. *)
StateOfStep(what) ==
  IF what \in {"start-processor.yml", "start-workload.yml"} THEN STARTED
  ELSE IF what \in {"stop-processor.yml", "stop-workload.yml"} THEN STOPPED
  ELSE IF what \in {"create-fabric.yml", "vpc", "node", "check-node-online.yml",
                    "create-node.yml"} THEN CREATED
  ELSE CONFIGURED

(* The steps of the trace that are made for the object k. *)
StepsFor(trace, k) ==
  {i \in DOMAIN trace : \E c \in trace[i] : \E o \in c.objs : KeyOf(c, o) = k}

(* Every call that the step i makes has succeeded. *)
StepOk(trace, i) == \A c \in trace[i] : c.ok

(* C32: after a run of create batch every object is left by the last step *)
(* made for it, in the state of that step with status success, when that *)
(* step succeeded, whatever failed later; and an object that the run has  *)
(* turned to failed is an object of a call that failed.                    *)
C32_EarlierStepsStay ==
  [][last'.cmd = "create batch"
       => /\ \A k \in ObjectsOf(state') :
               LET steps == StepsFor(last'.trace, k)
                   i == Max(steps)
                   obj == ObjectAt(state', k)
               IN steps # {}
                    => (StepOk(last'.trace, i)
                          => /\ check_object_status(obj, SUCCESS)
                             /\ \E c \in last'.trace[i] :
                                  check_object_state(obj, StateOfStep(c.what)))
          /\ \A k \in ObjectsOf(state') :
               check_object_status(ObjectAt(state', k), FAILED)
                 => \/ /\ k \in ObjectsOf(state)
                       /\ ObjectAt(state, k) = ObjectAt(state', k)
                    \/ \E c \in last'.calls : \E o \in c.objs :
                         ~c.ok /\ KeyOf(c, o) = k]_vars

(* A run of create batch has configured the processors and then failed to *)
(* start one of them: that processor is left (started, failed) and the    *)
(* other one, which was not to be started, keeps status success.          *)
C32_Witness ==
  /\ last.cmd = "create batch"
  /\ \E c \in last.calls : c.what = "start-processor.yml" /\ ~c.ok
  /\ \E c \in last.calls : c.what = "configure-processor.yml" /\ c.ok
  /\ "f1" \in DOMAIN state.fabric
  /\ P2 \in DOMAIN state.fabric["f1"].processor
  /\ check_object_state_status(state.fabric["f1"].processor[P1], STARTED, FAILED)
  /\ check_object_status(state.fabric["f1"].processor[P2], SUCCESS)

(* C33: every object of the persisted state (fabric, VPC, node) has a     *)
(* state of ObjectState and a status of ObjectStatus; no object is kept   *)
(* with the empty state and status of a clean object.                     *)
C33_PersistedDomains ==
  \A k \in ObjectsOf(state) :
    /\ get_object_state(ObjectAt(state, k)) \in ObjectState
    /\ get_object_status(ObjectAt(state, k)) \in ObjectStatus

(* A run of create batch has applied the terraform plan of its nodes, one *)
(* node was found unreachable, and processor P1, a node of the same plan, *)
(* is persisted with no state and no status.                               *)
C33_Witness ==
  /\ last.cmd = "create batch" /\ last.exit = 1
  /\ \E c \in last.calls :
       c.tool = "terraform" /\ c.what = "node" /\ c.ok /\ <<PROCESSOR, P1>> \in c.objs
  /\ \E c \in last.calls : ~c.ok /\ <<PROCESSOR, P1>> \notin c.objs
  /\ "f1" \in DOMAIN state.fabric
  /\ P1 \in DOMAIN state.fabric["f1"].processor
  /\ get_object_state(state.fabric["f1"].processor[P1]) = Clean
  /\ get_object_status(state.fabric["f1"].processor[P1]) = Clean

-----------------------------------------------------------------------------
(* Stored config claims (SpecStored). *)

(* The processors and workloads of fabric f1 that a batch declares and    *)
(* the state holds.                                                        *)
DeclaredNodes(s, batch) ==
  {kn \in {PROCESSOR, WORKLOAD} \X (AllProcessorNames \cup AllWorkloadNames) :
     /\ "f1" \in DOMAIN s.fabric
     /\ kn[2] \in Range(Target(batch, "f1", kn[1]))
     /\ kn[2] \in DOMAIN s.fabric["f1"][kn[1]]}

(* The plan of create batch for a declared node of the state s. *)
PlanFor(s, batch, kn) ==
  LET curr_obj == s.fabric["f1"][kn[1]][kn[2]]
      entry == BatchObj(batch, kn[1], kn[2])
  IN set_action_list(get_object_state(curr_obj), get_object_status(curr_obj),
                     entry.state, kn[1], entry.config, curr_obj.config)

(* The case of the claim: the declared config differs from the stored one *)
(* and the node is configured, started or stopped with a target of        *)
(* started or stopped, or configured with the target configured.          *)
ConfigDue(s, batch, kn) ==
  LET curr_obj == s.fabric["f1"][kn[1]][kn[2]]
      entry == BatchObj(batch, kn[1], kn[2])
  IN /\ entry.config # curr_obj.config
     /\ \/ /\ get_object_state(curr_obj) \in {CONFIGURED, STARTED, STOPPED}
           /\ entry.state \in {STARTED, STOPPED}
        \/ get_object_state(curr_obj) = CONFIGURED /\ entry.state = CONFIGURED

(* C34: in a run of create batch that ends with success a configure call  *)
(* has been made for every declared node in the case of the claim, and    *)
(* the stored config of a node of the state has changed only when the     *)
(* plan of the run holds a config action for the node.                     *)
C34_ConfigApplied ==
  [][(last'.cmd = "create batch" /\ ~last'.dry)
       => LET batch == StoredBatches[last'.arg[1]]
          IN \A kn \in DeclaredNodes(state, batch) :
               /\ (ConfigDue(state, batch, kn) /\ last'.exit = 0)
                    => \E c \in last'.calls :
                         /\ c.what = "configure-" \o kn[1] \o ".yml"
                         /\ kn \in c.objs
               /\ state'.fabric["f1"][kn[1]][kn[2]].config
                    # state.fabric["f1"][kn[1]][kn[2]].config
                    => "config" \in PlanFor(state, batch, kn)]_vars

(* A run of create batch with the batch of the changed config has ended   *)
(* with success, has started processor P1 and has made no configure call  *)
(* for it, and the state holds the declared config as the config of P1.   *)
C34_Witness ==
  /\ last.cmd = "create batch" /\ last.arg = <<"nodes_changed">> /\ last.exit = 0
  /\ \E c \in last.calls : c.what = "start-processor.yml" /\ <<PROCESSOR, P1>> \in c.objs
  /\ \A c \in last.calls : c.what = "configure-processor.yml" => <<PROCESSOR, P1>> \notin c.objs
  /\ check_object_state_status(state.fabric["f1"].processor[P1], STARTED, SUCCESS)
  /\ state.fabric["f1"].processor[P1].config = "confB"

-----------------------------------------------------------------------------
(* Retry claims (SpecRetriesLive). *)

(* The reads made so far that gave a value. *)
ValueReads(p) ==
  {k \in 1..p.reads : get_output_variable(OutputRun(p.outs, k)) # None}

(* C35: get_output_variable_with_retries returns; it reads once and then  *)
(* makes at most `retries` rounds of refresh and read; it stops at the    *)
(* first read that gives a value and returns it, and returns None when    *)
(* every one of the retries + 1 reads was empty; with None the node is    *)
(* set (created, failed).                                                  *)
C35_Terminates ==
  /\ <>(probe.pc = "returned")
  /\ [](/\ probe.reads <= probe.retries + 1
        /\ probe.refreshes <= probe.retries
        /\ probe.pc # "call" => probe.refreshes = probe.reads - 1
        /\ \A k \in ValueReads(probe) : k = probe.reads
        /\ probe.pc = "returned"
             => /\ IF ValueReads(probe) = {}
                     THEN probe.var = None /\ probe.reads = probe.retries + 1
                     ELSE probe.var = probe.outs[probe.reads]
                /\ probe.var = None
                     <=> check_object_state_status(probe.node, CREATED, FAILED)
                /\ probe.var # None => probe.node.state = Clean)

(* The function has returned None after its first read and all of its    *)
(* three retries were empty, and the node is (created, failed).            *)
C35_Witness ==
  /\ probe.pc = "returned" /\ probe.retries = MaxRetries
  /\ probe.reads = MaxRetries + 1 /\ probe.refreshes = MaxRetries
  /\ probe.var = None
  /\ check_object_state_status(probe.node, CREATED, FAILED)

-----------------------------------------------------------------------------
(* Configure claims (SpecPlans). *)

(* The run state a configure command is to give back to a node. *)
RunStateOf(st) == IF st \in {STARTED, STOPPED} THEN st ELSE CONFIGURED

(* C36: a configure processor or configure workload that ends with        *)
(* success leaves every node it has configured in the run state the node  *)
(* had before the command (started, stopped, or configured for a created  *)
(* or configured node) with status success, for both kinds alike.         *)
C36_KeepsRunState ==
  [][(last'.cmd \in {"configure processor", "configure workload"}
        /\ ~last'.dry /\ last'.exit = 0)
       => \A c \in last'.calls : \A o \in c.objs :
            c.what \in {"configure-processor.yml", "configure-workload.yml"}
              => check_object_state_status(
                   state'.fabric[c.fabric][o[1]][o[2]],
                   RunStateOf(get_object_state(state.fabric[c.fabric][o[1]][o[2]])),
                   SUCCESS)]_vars

(* A configure workload has ended with success after it has configured    *)
(* and started workload W1, and the state holds W1 as (configured,        *)
(* success).                                                               *)
C36_Witness ==
  /\ last.cmd = "configure workload" /\ last.exit = 0
  /\ \E c \in last.calls : c.what = "configure-workload.yml" /\ c.ok /\ <<WORKLOAD, W1>> \in c.objs
  /\ \E c \in last.calls : c.what = "start-workload.yml" /\ c.ok /\ <<WORKLOAD, W1>> \in c.objs
  /\ check_object_state_status(state.fabric["f1"].workload[W1], CONFIGURED, SUCCESS)

-----------------------------------------------------------------------------
(* NodeBatch removal claims (SpecScan). *)

(* The entry has a member node of the fabric, or of the VPC when one is   *)
(* given.                                                                  *)
HasMember(entry, target) ==
  \E n \in DOMAIN entry.nodes :
    IF target[2] # NoVpc THEN entry.nodes[n].vpc = target[2]
    ELSE entry.nodes[n].fabric = target[1]

(* C37: nodebatch_delete removes exactly the NodeBatch entries that hold  *)
(* a member node of the fabric (of the VPC, when called for a VPC) and    *)
(* leaves every other entry as it was.                                     *)
C37_ExactlyMembers ==
  probe.done
    => /\ DOMAIN probe.res =
            {b \in DOMAIN probe.batch : ~HasMember(probe.batch[b], probe.target)}
       /\ \A b \in DOMAIN probe.res \cap DOMAIN probe.batch :
            probe.res[b] = probe.batch[b]

(* nodebatch_delete has been called for fabric f1 on a state with the     *)
(* entry nb1 of a workload of f1 and the entry nb10 of a processor of f2, *)
(* and has left no entry.                                                  *)
C37_Witness ==
  /\ probe.done /\ probe.target = <<"f1", NoVpc>>
  /\ DOMAIN probe.batch = {"nb1", "nb10"}
  /\ probe.batch["nb1"] = ScanEntry(WORKLOAD, <<"f1", V1>>)
  /\ probe.batch["nb10"] = ScanEntry(PROCESSOR, <<"f2", V2>>)
  /\ probe.res = EmptyDict

-----------------------------------------------------------------------------
(* Fabric removal claims (SpecFabricDelete). *)

(* The fabric and all of its VPCs and nodes are as before but for their   *)
(* state and status, which are (deleting, failed).                        *)
AllDeletingFailed(before, after) ==
  /\ check_object_state_status(after, DELETING, FAILED)
  /\ \A k \in {VPC} \cup NodeKinds :
       /\ DOMAIN after[k] = DOMAIN before[k]
       /\ \A n \in DOMAIN after[k] :
            check_object_state_status(after[k][n], DELETING, FAILED)

-----------------------------------------------------------------------------
(* Swarm manager claims (SpecOrch). *)

(* The orchestrator n of the current fabric is a manager that is not in   *)
(* state created, and the fabric has a worker.                             *)
ManagerWithWorkers(n) ==
  LET fabric == get_current_fabric(state, current_fabric)
  IN /\ fabric # NoFabric
     /\ check_nodeobj(state, fabric, n, ORCHESTRATOR)
     /\ state.fabric[fabric].orchestrator[n].role = "manager"
     /\ ~check_object_state(state.fabric[fabric].orchestrator[n], CREATED)
     /\ \E w \in DOMAIN state.fabric[fabric].orchestrator :
          state.fabric[fabric].orchestrator[w].role = "worker"

=============================================================================
